---- MODULE Spec2Model ----
(***************************************************************************)
(* Model of the tropical-cyclone scripts of scripts/tc_intensity:          *)
(* extract_tc_variables_by_basin_parallel.py, apply_uqam_postprocessing.py,*)
(* generate_event_set.py and clean_tc_data.py.                             *)
(*                                                                         *)
(* The specifications share the module and its variables:                  *)
(*   Spec        the month loop of process_single_basin_parallel, calling  *)
(*               extract_single_observation_optimized for each observation *)
(*   SpecFaulty  the same loop with console output that can raise          *)
(*   SpecExtract extract_all_environmental_variables_at_tc_location, one   *)
(*               block of the function per step                            *)
(*   SpecAvg     extract_spatial_average and its batch form on a small     *)
(*               longitude/latitude grid                                   *)
(*   SpecCache   threads around the coordinate cache                       *)
(*   SpecLoad    calls of the two monthly loaders and their cache          *)
(*   SpecQM      quantile mapping and apply_postprocessing_to_storms       *)
(*   SpecDecay   add_landfall_and_kd_decay on an event set                 *)
(*   SpecClean   runs of clean_tc_dataset on one input path                *)
(* Console output (log_message, tqdm) is taken to succeed in Spec.         *)
(***************************************************************************)
EXTENDS Integers, Sequences, FiniteSets, TLC

VARIABLES
    \* ---- process_single_basin_parallel ----
    ibtracs_df,            \* observation table: index -> (year, month) id
    pc,                    \* position in the month loop
    mi,                    \* index into unique_year_months
    oi,                    \* index into month_obs
    era5_datasets,         \* result of load_monthly_era5_grids (None or dict)
    oras5_dataset,         \* result of load_monthly_oras5_grid (None or dataset)
    open,                  \* grid handles opened and not yet closed
    all_variables_list,    \* rows of the output table
    failed_observations,   \* indices recorded as failed
    stats,                 \* _extraction_stats
    loadLog,               \* history: one entry per call of the two loaders
    extractCalls,          \* history: calls of extract_single_observation_optimized
    \* ---- extract_all_environmental_variables_at_tc_location ----
    xpc,                   \* block of the function about to run
    xin,                   \* its arguments and the outcomes of its collaborators
    variables,             \* the mapping being built
    kernelArgs,            \* arguments of the PI kernel call, None before it
    raised,                \* the exception that left the function, or NoError
    \* ---- extract_spatial_average ----
    apc,                   \* "query" before the calls, "done" after
    ain,                   \* grid, field and query
    aout,                  \* the results of the calls
    \* ---- apply_uqam_postprocessing ----
    qpc,                   \* "call" before the call, "done" after
    qin,                   \* the storm table and the arguments
    qout,                  \* what the call returned or raised
    \* ---- _coordinate_cache and the threads that use it ----
    coordinate_cache,      \* key -> cached coordinate arrays
    coord_cache_lock,      \* the thread holding _coord_cache_lock, or 0
    tpc,                   \* thread -> where it is in its extraction
    tin,                   \* thread -> month and datasets of its extraction
    cacheWrites,           \* history: the writes to the cache, in order
    \* ---- _monthly_data_cache and the two loaders ----
    ENABLE_CACHE,          \* the module flag, fixed for a run
    monthly_data_cache,    \* the dict, as (key, value) pairs in insertion order
    loadCalls,             \* history: one entry per call of a loader
    \* ---- add_landfall_and_kd_decay ----
    dpc,                   \* "call" before the call, "done" after
    din,                   \* the track table handed to the function
    dout,                  \* the table it returns
    \* ---- clean_tc_dataset ----
    disk,                  \* path -> text of the CSV file at that path
    cleanRuns              \* history: one entry per run

vars == << ibtracs_df, pc, mi, oi, era5_datasets, oras5_dataset, open,
           all_variables_list, failed_observations, stats, loadLog,
           extractCalls, xpc, xin, variables, kernelArgs, raised,
           apc, ain, aout, qpc, qin, qout,
           coordinate_cache, coord_cache_lock, tpc, tin, cacheWrites,
           ENABLE_CACHE, monthly_data_cache, loadCalls, dpc, din, dout,
           disk, cleanRuns >>

loopVars == << ibtracs_df, pc, mi, oi, era5_datasets, oras5_dataset, open,
               all_variables_list, failed_observations, stats, loadLog,
               extractCalls >>
extractVars == << xpc, xin, variables, kernelArgs, raised >>
avgVars == << apc, ain, aout >>
qmVars == << qpc, qin, qout >>
cacheVars == << coordinate_cache, coord_cache_lock, tpc, tin, cacheWrites >>
loadVars == << ENABLE_CACHE, monthly_data_cache, loadCalls >>
decayVars == << dpc, din, dout >>
cleanVars == << disk, cleanRuns >>
otherVars == << loadVars, decayVars, cleanVars >>

\* Python's None.  A record, so that it compares with datasets and mappings.
None == [none |-> TRUE]
\* no exception / no error message
NoError == "no error"
\* None or NaN where the other values are strings
Missing == "missing"

(***************************************************************************)
(* Bounds                                                                  *)
(***************************************************************************)
MaxObs == 3          \* rows of the observation table
MaxThreads == 2      \* threads extracting at the same time
MaxLmi == 3          \* storms of a fitted array
MaxRows == 3         \* rows of the table read by main
MaxCalls == 3        \* calls of the two monthly loaders
MaxPoints == 4       \* rows of an event set
MaxRecords == 2      \* data rows of the CSV file to clean
MaxRuns == 2         \* runs of clean_tc_dataset

\* the (year, month) ids an observation can have, in calendar order
Months == {1, 2}

(***************************************************************************)
(* Small helpers                                                           *)
(***************************************************************************)
RECURSIVE SeqOfSet(_)
\* the elements of a finite set of integers in increasing order
SeqOfSet(S) ==
    IF S = {} THEN << >>
    ELSE LET m == CHOOSE x \in S : \A y \in S : x <= y
         IN  << m >> \o SeqOfSet(S \ {m})

Range(s) == { s[i] : i \in DOMAIN s }

\* dict.update / item assignment: the right operand wins
Update(d, e) == [k \in (DOMAIN d) \cup (DOMAIN e) |->
                    IF k \in DOMAIN e THEN e[k] ELSE d[k]]

\* del d[k] for every k of ks
Delete(d, ks) == [k \in (DOMAIN d) \ ks |-> d[k]]

EmptyDict == [k \in {} |-> None]

\* F(e), with e evaluated once (a local variable assigned once, used often)
Let(e, F(_)) == CHOOSE y \in { F(x) : x \in {e} } : TRUE


(***************************************************************************)
(* Grid datasets.  A dataset is described by the month it was opened for   *)
(* and by what the code looks at: its data variables and, for the          *)
(* pressure-level file, its pressure_level axis.                           *)
(***************************************************************************)
\* the N = 29 levels of the PI profile, 1000-50 hPa
ERA5_PI_PRESSURE_LEVELS ==
    << 1000, 975, 950, 925, 900, 875, 850, 825, 800, 775, 750, 700, 650, 600,
       550, 500, 450, 400, 350, 300, 250, 225, 200, 175, 150, 125, 100, 70, 50 >>

\* a pressure-level file that holds the diagnostic levels only
DiagnosticLevels == << 850, 600, 250, 200 >>

PiLevelCount == 29
\* np.linspace(0.01, 1.0, 100): the quantile levels k/100, k = 1..100
QuantileCount == 100
\* storms that reach tropical-storm intensity: intensities >= 18
StormThreshold == 18
\* a group needs this many storms for a mapping of its own
MinGroupStorms == 10
\* month-sets the monthly data cache may keep
MAX_CACHE_SIZE == 1

PlevAxes == { ERA5_PI_PRESSURE_LEVELS, DiagnosticLevels }

\* An open dataset: the month it was opened for and, once its variables are
\* read, what the code looks at: its data variables and, for the
\* pressure-level file, its pressure_level axis.  The files are opened
\* lazily, so what a file holds is an input of each extraction.
Dataset(ym) == [ym |-> ym]

PlevContents == [data_vars : SUBSET {"t", "q"}, plev_vals : PlevAxes]
SlContents == [data_vars : SUBSET {"sp", "sst"}]

\* which of the three monthly files exist on disk
FilePresence == [plev : BOOLEAN, sl : BOOLEAN, oras5 : BOOLEAN]

\* outcomes of the collaborators of one extraction: the ORAS5 SST lookup
\* (in-memory lookup works / it raises and the file-based lookup works /
\* both fail) and the PI kernel (returns / raises)
Envs == [oras : {"ok", "file", "fail"}, kernel : {"ok", "raise"}]

(***************************************************************************)
(* load_monthly_era5_grids, load_monthly_oras5_grid (ENABLE_CACHE False)   *)
(***************************************************************************)
load_monthly_era5_grids(ym, files) ==
    LET d1 == IF files.plev THEN [k \in {"pressure_levels"} |-> Dataset(ym)]
              ELSE EmptyDict
        d2 == IF files.sl THEN Update(d1, [k \in {"single_level"} |-> Dataset(ym)])
              ELSE d1
    IN  IF DOMAIN d2 # {} THEN d2 ELSE None

load_monthly_oras5_grid(ym, files) == IF files.oras5 THEN Dataset(ym) ELSE None

\* the datasets as an extraction sees them
Read(era5, plev, sl) ==
    [k \in DOMAIN era5 |-> IF k = "pressure_levels" THEN plev ELSE sl]

(***************************************************************************)
(* extract_all_environmental_variables_at_tc_location, block by block.     *)
(* A block is a maximal run of statements none of which can leave the      *)
(* function.  Averaged values are abstract ("avg"); a profile is the       *)
(* sequence of source-level indices its entries were taken from.           *)
(***************************************************************************)
Abs(x) == IF x < 0 THEN -x ELSE x

RECURSIVE ArgMinFrom(_, _, _, _)
\* linear scan for the nearest level; an earlier index wins a tie
ArgMinFrom(plev_vals, plev, k, best) ==
    IF k > Len(plev_vals) THEN best
    ELSE ArgMinFrom(plev_vals, plev, k + 1,
                    IF Abs(plev_vals[k] - plev) < Abs(plev_vals[best] - plev)
                    THEN k ELSE best)

\* int(np.abs(plev_vals - plev).argmin()): first index of the nearest level
ArgMinLevel(plev_vals, plev) == ArgMinFrom(plev_vals, plev, 2, 1)

TripletKeys == { "_temperature_profile_pi", "_specific_humidity_profile_pi",
                 "_pressure_levels_pi" }

Const(keys, v) == [k \in keys |-> v]

InitialVariables == Const({"lat", "lon", "time", "bathymetry", "is_land"}, "value")

\* lines 662-685: the three transient arrays, for a pressure_level axis
ProfilesFromAxis(plev_vals) ==
    LET plev_indices == [i \in DOMAIN ERA5_PI_PRESSURE_LEVELS |->
                            ArgMinLevel(plev_vals, ERA5_PI_PRESSURE_LEVELS[i])]
        plevs_pi == [i \in DOMAIN ERA5_PI_PRESSURE_LEVELS |->
                            plev_vals[plev_indices[i]]]
    IN  [k \in TripletKeys |->
            IF k = "_pressure_levels_pi" THEN plevs_pi ELSE plev_indices]

\* the same, tabulated once for the axes of the model
ProfileTable == [ax \in PlevAxes |-> ProfilesFromAxis(ax)]

FullProfiles(ds_plev) == ProfileTable[ds_plev.plev_vals]

\* PressureLevelBlock storing each profile as soon as its own field is found
PressureLevelBlock_PerField(vs, era5) ==
    IF "pressure_levels" \notin DOMAIN era5 THEN vs
    ELSE
      LET ds_plev == era5["pressure_levels"]
          hasT == "t" \in ds_plev.data_vars
          hasQ == "q" \in ds_plev.data_vars
          prof == FullProfiles(ds_plev)
          v1 == IF hasT
                THEN Update(vs, [k \in {"_temperature_profile_pi", "_pressure_levels_pi"}
                                    |-> prof[k]])
                ELSE vs
      IN  IF hasQ
          THEN Update(v1, [k \in {"_specific_humidity_profile_pi"} |-> prof[k]])
          ELSE v1

\* 1. ERA5 pressure-level data
PressureLevelBlock(vs, era5) ==
    IF "pressure_levels" \notin DOMAIN era5 THEN vs
    ELSE
      LET ds_plev == era5["pressure_levels"]
          hasT == "t" \in ds_plev.data_vars
          hasQ == "q" \in ds_plev.data_vars
          v1 == IF hasT
                THEN Update(vs, Const({"temperature_850", "temperature_600",
                                       "temperature_250", "temperature_200"}, "avg"))
                ELSE vs
          v2 == IF hasQ
                THEN Update(v1, Const({"specific_humidity_850", "specific_humidity_600",
                                       "specific_humidity_200"}, "avg"))
                ELSE v1
      IN  IF hasT /\ hasQ THEN Update(v2, FullProfiles(ds_plev)) ELSE v2

\* 2. ERA5 single-level data
SingleLevelBlock(vs, era5) ==
    IF "single_level" \in DOMAIN era5 /\ "sp" \in era5["single_level"].data_vars
    THEN Update(vs, Const({"surface_pressure"}, "avg"))
    ELSE vs

\* 2.5 SST from ORAS5
SstOras5Block(vs, oras5, env) ==
    IF "sst" \notin DOMAIN vs /\ oras5 # None
    THEN CASE env.oras = "ok"   -> Update(vs, Const({"sst"}, "oras5"))
           [] env.oras = "file" -> Update(vs, Const({"sst"}, "oras5_file"))
           [] OTHER             -> vs
    ELSE vs

\* SstEra5Block that stores the ERA5 value whatever the mapping holds
SstEra5Block_Overwrites(vs, era5) ==
    IF /\ "single_level" \in DOMAIN era5
       /\ "sst" \in era5["single_level"].data_vars
    THEN Update(vs, Const({"sst"}, "era5"))
    ELSE vs

\* 2.6 SST from ERA5
SstEra5Block(vs, era5) ==
    IF /\ "sst" \notin DOMAIN vs
       /\ "single_level" \in DOMAIN era5
       /\ "sst" \in era5["single_level"].data_vars
    THEN Update(vs, Const({"sst"}, "era5"))
    ELSE vs

\* PotentialIntensityBlock with the other failure policy: a kernel exception
\* is swallowed and PI becomes NaN
PotentialIntensityBlock_NaNOnFailure(vs, env) ==
    IF ~ ("sst" \in DOMAIN vs /\ "surface_pressure" \in DOMAIN vs)
    THEN [variables |-> vs, raised |-> NoError, kernel |-> None]
    ELSE IF ~ (TripletKeys \subseteq DOMAIN vs)
    THEN [variables |-> vs, raised |-> "ValueError: missing profiles", kernel |-> None]
    ELSE [variables |-> Update(Delete(vs, TripletKeys),
                               Const({"pi"}, IF env.kernel = "raise" THEN "NaN"
                                             ELSE env.kernel)),
          raised |-> NoError,
          kernel |-> [temperature_profile |-> vs["_temperature_profile_pi"],
                      specific_humidity_profile |-> vs["_specific_humidity_profile_pi"],
                      pressure_levels |-> vs["_pressure_levels_pi"]]]

\* 3. PI: the profile checks, the clean-up of the transient arrays and the
\* kernel call.  raised is NoError when the block falls through.
PotentialIntensityBlock(vs, env) ==
    IF ~ ("sst" \in DOMAIN vs /\ "surface_pressure" \in DOMAIN vs)
    THEN [variables |-> vs, raised |-> NoError, kernel |-> None]
    ELSE IF ~ (TripletKeys \subseteq DOMAIN vs)
    THEN [variables |-> vs, raised |-> "ValueError: missing profiles", kernel |-> None]
    ELSE
      LET temperature_profile == vs["_temperature_profile_pi"]
          specific_humidity_profile == vs["_specific_humidity_profile_pi"]
          pressure_levels == vs["_pressure_levels_pi"]
      IN  IF \/ Len(temperature_profile) # PiLevelCount
             \/ Len(specific_humidity_profile) # PiLevelCount
             \/ Len(pressure_levels) # PiLevelCount
          THEN [variables |-> vs, raised |-> "ValueError: level count", kernel |-> None]
          ELSE
            LET cleaned == Delete(vs, TripletKeys)
                call == [temperature_profile |-> temperature_profile,
                         specific_humidity_profile |-> specific_humidity_profile,
                         pressure_levels |-> pressure_levels]
            IN  IF env.kernel = "raise"
                THEN [variables |-> cleaned, raised |-> "RuntimeError: kernel",
                      kernel |-> call]
                ELSE [variables |-> Update(cleaned, Const({"pi"}, env.kernel)),
                      raised |-> NoError, kernel |-> call]

\* 4.-6. mixed-layer depth, translation speed, bathymetry: each section
\* catches its own exceptions; bathymetry and is_land are set again (to a
\* value or to NaN), the other keys are optional diagnostics left out here
OptionalBlock(vs) == Update(vs, Const({"bathymetry", "is_land"}, "value"))

extract_all_environmental_variables_at_tc_location(era5, oras5, env) ==
    Let(PressureLevelBlock(InitialVariables, era5), LAMBDA v1 :
    Let(SingleLevelBlock(v1, era5), LAMBDA v2 :
    Let(SstOras5Block(v2, oras5, env), LAMBDA v3 :
    Let(SstEra5Block(v3, era5), LAMBDA v4 :
    Let(PotentialIntensityBlock(v4, env), LAMBDA p :
        IF p.raised # NoError THEN p
        ELSE [p EXCEPT !.variables = OptionalBlock(p.variables)])))))

\* the (idx, variables, error_msg) tuple; every exception of the extraction
\* is caught and turned into an error message
extract_single_observation_optimized(idx, era5, oras5, env) ==
    IF era5 = None
    THEN [idx |-> idx, variables |-> None, error_msg |-> "No ERA5 data"]
    ELSE
      Let(extract_all_environmental_variables_at_tc_location(era5, oras5, env),
          LAMBDA r :
            IF r.raised # NoError
            THEN [idx |-> idx, variables |-> None, error_msg |-> r.raised]
            ELSE [idx |-> idx,
                  variables |-> Update(r.variables,
                      Const({"storm_id", "max_wind_ms", "year", "basin"}, "value")),
                  error_msg |-> NoError])

(***************************************************************************)
(* process_single_basin_parallel: the month loop (max_workers = 1).        *)
(* pc: "for_month"  at the head of the for loop over unique_year_months    *)
(*     "loaded"     after the two loads of the month, inside the try       *)
(*     "done"       after the loop, at the summary                         *)
(***************************************************************************)
unique_year_months == SeqOfSet(Range(ibtracs_df))

\* month_obs_index without the month mask: every row of the table
month_obs_index_Unmasked(ym) == SeqOfSet({ i \in DOMAIN ibtracs_df : TRUE })

\* month_obs.index: the indices of the observations of one month, in table order
month_obs_index(ym) == SeqOfSet({ i \in DOMAIN ibtracs_df : ibtracs_df[i] = ym })

current_month == unique_year_months[mi]

Handle(ds, kind) == [ym |-> ds.ym, kind |-> kind]

HandlesOf(era5, oras5) ==
    (IF era5 = None THEN {} ELSE { Handle(era5[k], k) : k \in DOMAIN era5 })
    \cup (IF oras5 = None THEN {} ELSE { Handle(oras5, "oras5") })

\* the row of the output table made of a returned mapping
Row(idx, vs) ==
    [obs |-> idx, pi |-> IF "pi" \in DOMAIN vs THEN vs["pi"] ELSE "NaN"]

ExtractIdle ==
    /\ xpc = "off"
    /\ xin = None
    /\ variables = None
    /\ kernelArgs = None
    /\ raised = NoError
AvgIdle == apc = "off" /\ ain = None /\ aout = None
QmIdle == qpc = "off" /\ qin = None /\ qout = None
CacheIdle ==
    /\ coordinate_cache = EmptyDict
    /\ coord_cache_lock = 0
    /\ tpc = EmptyDict
    /\ tin = EmptyDict
    /\ cacheWrites = << >>
LoadIdle == ENABLE_CACHE = FALSE /\ monthly_data_cache = << >> /\ loadCalls = << >>
DecayIdle == dpc = "off" /\ din = None /\ dout = None
CleanIdle == disk = EmptyDict /\ cleanRuns = << >>
OtherIdle == LoadIdle /\ DecayIdle /\ CleanIdle

Tables == UNION { [1..n -> Months] : n \in 1..MaxObs }

Init ==
    /\ OtherIdle
    /\ ibtracs_df \in Tables
    /\ pc = "for_month"
    /\ mi = 1
    /\ oi = 1
    /\ era5_datasets = None
    /\ oras5_dataset = None
    /\ open = {}
    /\ all_variables_list = << >>
    /\ failed_observations = << >>
    /\ stats = [total |-> Len(ibtracs_df), success |-> 0, failed |-> 0]
    /\ loadLog = << >>
    /\ extractCalls = << >>
    /\ ExtractIdle
    /\ AvgIdle
    /\ QmIdle
    /\ CacheIdle

\* lines 1155-1166: next month of the loop, the two loads
LoadMonth ==
    /\ pc = "for_month"
    /\ mi <= Len(unique_year_months)
    /\ \E files \in FilePresence :
          /\ era5_datasets' = load_monthly_era5_grids(current_month, files)
          /\ oras5_dataset' = load_monthly_oras5_grid(current_month, files)
          /\ open' = open \cup HandlesOf(era5_datasets', oras5_dataset')
    /\ loadLog' = Append(loadLog, [ym |-> current_month,
                                   era5 |-> era5_datasets' # None,
                                   oras5 |-> oras5_dataset' # None])
    /\ oi' = 1
    /\ pc' = "loaded"
    /\ UNCHANGED << ibtracs_df, mi, all_variables_list, failed_observations,
                    stats, extractCalls >>
    /\ UNCHANGED << extractVars, avgVars, qmVars, cacheVars, otherVars >>

\* SkipMonthNoEra5 without the update of the failed counter
SkipMonthNoEra5_Uncounted ==
    /\ pc = "loaded"
    /\ era5_datasets = None
    /\ failed_observations' = failed_observations \o month_obs_index(current_month)
    /\ mi' = mi + 1
    /\ pc' = "for_month"
    /\ UNCHANGED << ibtracs_df, oi, era5_datasets, oras5_dataset, open,
                    all_variables_list, stats, loadLog, extractCalls >>
    /\ UNCHANGED << extractVars, avgVars, qmVars, cacheVars, otherVars >>

\* lines 1168-1173: no ERA5 data for the month
SkipMonthNoEra5 ==
    /\ pc = "loaded"
    /\ era5_datasets = None
    /\ failed_observations' = failed_observations \o month_obs_index(current_month)
    /\ stats' = [stats EXCEPT !.failed = @ + Len(month_obs_index(current_month))]
    /\ mi' = mi + 1
    /\ pc' = "for_month"
    /\ UNCHANGED << ibtracs_df, oi, era5_datasets, oras5_dataset, open,
                    all_variables_list, loadLog, extractCalls >>
    /\ UNCHANGED << extractVars, avgVars, qmVars, cacheVars, otherVars >>

\* Record where a failed extraction is counted but its index is not kept
Record_IndexLost(result) ==
    IF result.row # None
    THEN /\ all_variables_list' = Append(all_variables_list, result.row)
         /\ stats' = [stats EXCEPT !.success = @ + 1]
         /\ UNCHANGED failed_observations
    ELSE /\ stats' = [stats EXCEPT !.failed = @ + 1]
         /\ UNCHANGED << failed_observations, all_variables_list >>

\* lines 1184-1191: the result of one extraction goes to the table or to
\* the failures
Record(result) ==
    IF result.row # None
    THEN /\ all_variables_list' = Append(all_variables_list, result.row)
         /\ stats' = [stats EXCEPT !.success = @ + 1]
         /\ UNCHANGED failed_observations
    ELSE /\ failed_observations' = Append(failed_observations, result.idx)
         /\ stats' = [stats EXCEPT !.failed = @ + 1]
         /\ UNCHANGED all_variables_list

\* history of one call: what happened inside the extraction
CallRecord(idx, era5, oras5, env) ==
    Let(extract_all_environmental_variables_at_tc_location(era5, oras5, env),
        LAMBDA r :
          [idx |-> idx,
           raised |-> r.raised,
           kernel |-> IF r.kernel = None THEN "not called" ELSE env.kernel,
           pi_stored |-> "pi" \in DOMAIN r.variables])

\* lines 1179-1182: the call for observation idx; of the returned tuple the
\* loop keeps the index and the mapping, which becomes a row of the table
Outcome(idx, era5, oras5, env) ==
    Let(extract_single_observation_optimized(idx, era5, oras5, env),
        LAMBDA result :
          [result |-> [idx |-> result.idx,
                       row |-> IF result.variables # None
                               THEN Row(result.idx, result.variables) ELSE None],
           call |-> CallRecord(idx, era5, oras5, env)])

\* the datasets as the extractions can see them
Era5Views(era5) == { Read(era5, plev, sl) : plev \in PlevContents, sl \in SlContents }

\* what the call can give, over what the files hold and what the
\* collaborators do
Outcomes(idx) ==
    { Outcome(idx, era5, oras5_dataset, env) :
        era5 \in Era5Views(era5_datasets), env \in Envs }

\* lines 1176-1193: one observation of the month
ProcessObservation ==
    /\ pc = "loaded"
    /\ era5_datasets # None
    /\ oi <= Len(month_obs_index(current_month))
    /\ \E o \in Outcomes(month_obs_index(current_month)[oi]) :
          /\ extractCalls' = Append(extractCalls, o.call)
          /\ Record(o.result)
    /\ oi' = oi + 1
    /\ UNCHANGED << ibtracs_df, pc, mi, era5_datasets, oras5_dataset, open, loadLog >>
    /\ UNCHANGED << extractVars, avgVars, qmVars, cacheVars, otherVars >>

\* lines 1208-1223: close the datasets of the month
CloseMonth ==
    /\ pc = "loaded"
    /\ era5_datasets # None
    /\ oi > Len(month_obs_index(current_month))
    /\ open' = open \ HandlesOf(era5_datasets, oras5_dataset)
    /\ mi' = mi + 1
    /\ pc' = "for_month"
    /\ UNCHANGED << ibtracs_df, oi, era5_datasets, oras5_dataset,
                    all_variables_list, failed_observations, stats, loadLog,
                    extractCalls >>
    /\ UNCHANGED << extractVars, avgVars, qmVars, cacheVars, otherVars >>

\* lines 1231-1248: the loop is over
Summary ==
    /\ pc = "for_month"
    /\ mi > Len(unique_year_months)
    /\ pc' = "done"
    /\ UNCHANGED << ibtracs_df, mi, oi, era5_datasets, oras5_dataset, open,
                    all_variables_list, failed_observations, stats, loadLog,
                    extractCalls >>
    /\ UNCHANGED << extractVars, avgVars, qmVars, cacheVars, otherVars >>

Next ==
    \/ LoadMonth
    \/ SkipMonthNoEra5
    \/ ProcessObservation
    \/ CloseMonth
    \/ Summary

Spec == Init /\ [][Next]_vars

(***************************************************************************)
(* The month loop when console output can fail: log_message prints to      *)
(* stdout and tqdm writes to stderr, and either can raise (a closed or     *)
(* non-blocking pipe).  SpecFaulty adds to the steps of Spec those where   *)
(* the output that follows the counting of an observation raises.          *)
(***************************************************************************)
\* lines 1184-1191 as values: the table, the failures and the counters
\* after the result of one extraction was counted
Counted(result) ==
    IF result.row # None
    THEN [all_variables_list |-> Append(all_variables_list, result.row),
          failed_observations |-> failed_observations,
          stats |-> [stats EXCEPT !.success = @ + 1]]
    ELSE [all_variables_list |-> all_variables_list,
          failed_observations |-> Append(failed_observations, result.idx),
          stats |-> [stats EXCEPT !.failed = @ + 1]]

\* lines 1179-1193, then 1202-1206: the observation is counted, pbar.update
\* (or the progress message) raises, and the handler of the observation
\* counts it as failed
CountedThenRaised ==
    /\ pc = "loaded"
    /\ era5_datasets # None
    /\ oi <= Len(month_obs_index(current_month))
    /\ \E o \in Outcomes(month_obs_index(current_month)[oi]) :
          /\ extractCalls' = Append(extractCalls, o.call)
          /\ all_variables_list' = Counted(o.result).all_variables_list
          /\ failed_observations' =
                Append(Counted(o.result).failed_observations, o.result.idx)
          /\ stats' = [Counted(o.result).stats EXCEPT !.failed = @ + 1]
    /\ oi' = oi + 1
    /\ UNCHANGED << ibtracs_df, pc, mi, era5_datasets, oras5_dataset, open, loadLog >>
    /\ UNCHANGED << extractVars, avgVars, qmVars, cacheVars, otherVars >>

\* the same, and the message of the handler (line 1203) raises too: the
\* exception leaves the loop over the observations and the handler of the
\* month (lines 1225-1229) counts every observation of the month as failed;
\* the datasets of the month are not closed
HandlerRaised ==
    /\ pc = "loaded"
    /\ era5_datasets # None
    /\ oi <= Len(month_obs_index(current_month))
    /\ \E o \in Outcomes(month_obs_index(current_month)[oi]) :
          /\ extractCalls' = Append(extractCalls, o.call)
          /\ all_variables_list' = Counted(o.result).all_variables_list
          /\ failed_observations' =
                Counted(o.result).failed_observations \o month_obs_index(current_month)
          /\ stats' = [Counted(o.result).stats EXCEPT
                          !.failed = @ + Len(month_obs_index(current_month))]
    /\ mi' = mi + 1
    /\ pc' = "for_month"
    /\ UNCHANGED << ibtracs_df, oi, era5_datasets, oras5_dataset, open, loadLog >>
    /\ UNCHANGED << extractVars, avgVars, qmVars, cacheVars, otherVars >>

NextFaulty ==
    \/ LoadMonth
    \/ SkipMonthNoEra5
    \/ ProcessObservation
    \/ CloseMonth
    \/ Summary
    \/ CountedThenRaised
    \/ HandlerRaised

SpecFaulty == Init /\ [][NextFaulty]_vars

(***************************************************************************)
(* One call of extract_all_environmental_variables_at_tc_location, a block *)
(* per step.  xpc names the block about to run.                            *)
(***************************************************************************)
LoopIdle ==
    /\ ibtracs_df = << >>
    /\ pc = "off"
    /\ mi = 0
    /\ oi = 0
    /\ era5_datasets = None
    /\ oras5_dataset = None
    /\ open = {}
    /\ all_variables_list = << >>
    /\ failed_observations = << >>
    /\ stats = [total |-> 0, success |-> 0, failed |-> 0]
    /\ loadLog = << >>
    /\ extractCalls = << >>

\* the era5_datasets argument: a non-empty dict of datasets
Era5Args ==
    UNION { Era5Views([k \in keys |-> Dataset(1)]) :
                keys \in (SUBSET {"pressure_levels", "single_level"}) \ {{}} }

InitExtract ==
    /\ OtherIdle
    /\ LoopIdle
    /\ AvgIdle
    /\ QmIdle
    /\ CacheIdle
    /\ xpc = "pressure_levels"
    /\ xin \in [era5 : Era5Args, oras5 : {None, Dataset(1)}, env : Envs]
    /\ variables = InitialVariables
    /\ kernelArgs = None
    /\ raised = NoError

XPressureLevels ==
    /\ xpc = "pressure_levels"
    /\ variables' = PressureLevelBlock(variables, xin.era5)
    /\ xpc' = "single_level"
    /\ UNCHANGED << xin, kernelArgs, raised, loopVars, avgVars, qmVars, cacheVars, otherVars >>

XSingleLevel ==
    /\ xpc = "single_level"
    /\ variables' = SingleLevelBlock(variables, xin.era5)
    /\ xpc' = "sst_oras5"
    /\ UNCHANGED << xin, kernelArgs, raised, loopVars, avgVars, qmVars, cacheVars, otherVars >>

XSstOras5 ==
    /\ xpc = "sst_oras5"
    /\ variables' = SstOras5Block(variables, xin.oras5, xin.env)
    /\ xpc' = "sst_era5"
    /\ UNCHANGED << xin, kernelArgs, raised, loopVars, avgVars, qmVars, cacheVars, otherVars >>

XSstEra5 ==
    /\ xpc = "sst_era5"
    /\ variables' = SstEra5Block(variables, xin.era5)
    /\ xpc' = "pi"
    /\ UNCHANGED << xin, kernelArgs, raised, loopVars, avgVars, qmVars, cacheVars, otherVars >>

XPotentialIntensity ==
    /\ xpc = "pi"
    /\ \E p \in { PotentialIntensityBlock(variables, xin.env) } :
          /\ variables' = p.variables
          /\ kernelArgs' = p.kernel
          /\ raised' = p.raised
          /\ xpc' = IF p.raised # NoError THEN "raised" ELSE "optional"
    /\ UNCHANGED << xin, loopVars, avgVars, qmVars, cacheVars, otherVars >>

XOptional ==
    /\ xpc = "optional"
    /\ variables' = OptionalBlock(variables)
    /\ xpc' = "returned"
    /\ UNCHANGED << xin, kernelArgs, raised, loopVars, avgVars, qmVars, cacheVars, otherVars >>

NextExtract ==
    \/ XPressureLevels
    \/ XSingleLevel
    \/ XSstOras5
    \/ XSstEra5
    \/ XPotentialIntensity
    \/ XOptional

SpecExtract == InitExtract /\ [][NextExtract]_vars

(***************************************************************************)
(* extract_spatial_average on a coarse global grid.  Coordinates are in    *)
(* half degrees (0.5 deg = 1, 180 deg = 360, 360 deg = 720), cosines in    *)
(* hundredths, and an average is a fraction num/den.                       *)
(***************************************************************************)
Val(n) == [nan |-> FALSE, num |-> n, den |-> 1]
NaN == [nan |-> TRUE, num |-> 0, den |-> 1]
\* float('inf') and float('-inf'): not NaN, and not a finite fraction
PosInf == [nan |-> FALSE, num |-> 1, den |-> 0]
NegInf == [nan |-> FALSE, num |-> -1, den |-> 0]
Values == { Val(1), Val(2), NaN }
InfiniteValues == { Val(1), PosInf, NegInf }

\* the same physical meridians on an axis spanning [0,360) and [-180,180)
LonAxes == { << 0, 240, 480 >>, << -240, 0, 240 >> }
\* ascending, and descending as ERA5 files store it
LatAxes == { << 0, 120 >>, << 120, 0 >> }
Cells == { 0, 120 } \X { 0, 240, 480 }
\* fields with missing cells, and fields with infinite cells
Fields == [Cells -> Values] \cup [Cells -> InfiniteValues]
DataArrays == [latitude : LatAxes, longitude : LonAxes, field : Fields]

\* data_array.isel(latitude=i, longitude=j).values
ValueAt(da, i, j) == da.field[<< da.latitude[i], da.longitude[j] % 720 >>]

\* np.cos(np.deg2rad(x)), in hundredths
Cos100(x) ==
    LET a == Abs(x)
    IN  CASE a = 0   -> 100
          [] a = 30  -> 97
          [] a = 60  -> 87
          [] a = 90  -> 71
          [] a = 120 -> 50

\* label-based .sel(axis=slice(lo, hi)): the positions between the two
\* labels in index order; empty on a descending axis when lo < hi
SliceIdx(axis, lo, hi) ==
    LET ascending == Len(axis) < 2 \/ axis[1] < axis[2]
    IN  SelectSeq([i \in DOMAIN axis |-> i],
                  LAMBDA i : IF ascending
                             THEN lo <= axis[i] /\ axis[i] <= hi
                             ELSE hi <= axis[i] /\ axis[i] <= lo)

\* int(np.abs(coords[sel] - x).argmin()) as a position of sel
ArgMinCoord(axis, sel, x) ==
    ArgMinFrom([k \in DOMAIN sel |-> axis[sel[k]]], x, 2, 1)

\* nearest-neighbour fallback over the positions lat_sel, lon_sel
NearestNeighbour(da, lat_sel, lon_sel, lat, lon, path) ==
    LET lat_idx == ArgMinCoord(da.latitude, lat_sel, lat)
        lon_idx == ArgMinCoord(da.longitude, lon_sel, lon)
    IN  [value |-> ValueAt(da, lat_sel[lat_idx], lon_sel[lon_idx]), path |-> path]

\* the result of a call, with what the call saw: the values of the cells
\* within the radius and the value of the cell its fallback would take
Averaged(r, inradius, nearest) ==
    [value |-> r.value, path |-> r.path, inradius |-> inradius, nearest |-> nearest]

RECURSIVE SumSeq(_)
SumSeq(s) == IF s = << >> THEN 0 ELSE Head(s) + SumSeq(Tail(s))

\* distances <= radius_deg with haversine_distance_fast
WithinRadius(lat1, lon1, lat2, lon2, lat2_mean, radius) ==
    LET dlat == lat2 - lat1
        d0 == lon2 - lon1
        d1 == IF d0 > 360 THEN d0 - 720 ELSE d0
        dlon == IF d1 < -360 THEN d1 + 720 ELSE d1
        c == Cos100((lat1 + lat2_mean) \div 2)
    IN  (100 * dlat) * (100 * dlat) + (dlon * c) * (dlon * c)
            <= (100 * radius) * (100 * radius)

\* the weighted average normalised by the number of cells
WeightedAverage_CountNormalised(vals, weights) ==
    [nan |-> FALSE,
     num |-> SumSeq([k \in DOMAIN vals |-> vals[k].num * weights[k]]),
     den |-> 100 * Len(weights)]

\* np.sum(masked_data * weights_valid) over the valid cells, the weights
\* divided by total_weight: an infinite cell makes the sum infinite, two of
\* opposite signs make it NaN
WeightedAverage(vals, weights) ==
    LET infinite == { vals[k].num : k \in { k \in DOMAIN vals : vals[k].den = 0 } }
    IN  IF infinite = {}
        THEN [nan |-> FALSE,
              num |-> SumSeq([k \in DOMAIN vals |-> vals[k].num * weights[k]]),
              den |-> SumSeq(weights)]
        ELSE IF Cardinality(infinite) > 1 THEN NaN
        ELSE [nan |-> FALSE, num |-> CHOOSE sign \in infinite : TRUE, den |-> 0]

\* the query longitude on the convention of the axis: lines 181-188, 312-319
LonShift(lon_coords_full, lon0) ==
    LET toEast == (\E i \in DOMAIN lon_coords_full : lon_coords_full[i] > 360)
                      /\ lon0 < 0
        toWest == /\ ~ toEast
                  /\ \E i \in DOMAIN lon_coords_full : lon_coords_full[i] <= 360
                  /\ lon0 > 360
    IN  IF toEast THEN 720 ELSE IF toWest THEN -720 ELSE 0

\* lines 207-219, 342-354: the cells of the region within the radius
CircularMask(da, lat_sel, lon_sel, lat, lon, radius) ==
    LET lat_mean == SumSeq([k \in DOMAIN lat_sel |-> da.latitude[lat_sel[k]]])
                        \div Len(lat_sel)
    IN  { c \in Range(lat_sel) \X Range(lon_sel) :
            WithinRadius(lat, lon, da.latitude[c[1]], da.longitude[c[2]],
                         lat_mean, radius) }

\* the cells of a mask in row-major order, as numbers
MaskCells(da, m) == SeqOfSet({ Len(da.longitude) * c[1] + c[2] : c \in m })
CellRow(da, n) == (n - 1) \div Len(da.longitude)
CellColumn(da, n) == n - Len(da.longitude) * CellRow(da, n)

\* the weighted sum over the cells of combined_mask
WeightedSum(da, combined_mask) ==
    LET cells == MaskCells(da, combined_mask)
        vals == [k \in DOMAIN cells |->
                    ValueAt(da, CellRow(da, cells[k]), CellColumn(da, cells[k]))]
        weights_valid == [k \in DOMAIN cells |->
                             Cos100(da.latitude[CellRow(da, cells[k])])]
    IN  [total_weight |-> SumSeq(weights_valid),
         weighted_sum |-> WeightedAverage(vals, weights_valid)]

extract_spatial_average(da, lat, lon0, radius) ==
    LET shift == LonShift(da.longitude, lon0)
        lon == lon0 + shift
        lat_sel == SliceIdx(da.latitude, lat - radius - 1, lat + radius + 1)
        lon_sel == SliceIdx(da.longitude, lon0 - radius - 1 + shift,
                                          lon0 + radius + 1 + shift)
        all_lat == [i \in DOMAIN da.latitude |-> i]
        all_lon == [j \in DOMAIN da.longitude |-> j]
    IN  IF lat_sel = << >> \/ lon_sel = << >>
        THEN Let(NearestNeighbour(da, all_lat, all_lon, lat, lon, "nearest on grid"),
                 LAMBDA r : Averaged(r, {}, r.value))
        ELSE
          LET mask == CircularMask(da, lat_sel, lon_sel, lat, lon, radius)
              combined_mask == { c \in mask : ~ ValueAt(da, c[1], c[2]).nan }
              sum == WeightedSum(da, combined_mask)
              fallback == NearestNeighbour(da, lat_sel, lon_sel, lat, lon,
                                           "nearest in region")
              result ==
                  IF mask = {} THEN fallback
                  ELSE IF Len(lat_sel) * Len(lon_sel) = 1
                  THEN [value |-> ValueAt(da, lat_sel[1], lon_sel[1]), path |-> "single cell"]
                  ELSE IF combined_mask = {} THEN fallback
                  ELSE IF sum.total_weight = 0 THEN fallback
                  ELSE IF sum.weighted_sum.nan
                  THEN [value |-> fallback.value, path |-> "undefined sum"]
                  ELSE [value |-> sum.weighted_sum, path |-> "weighted"]
          IN  Averaged(result, { ValueAt(da, c[1], c[2]) : c \in mask }, fallback.value)

\* the fields share the grid of the first: one region, one mask, and then a
\* result for each field
extract_spatial_average_batch(data_arrays, lat, lon0, radius) ==
    LET first_array == data_arrays[1]
        shift == LonShift(first_array.longitude, lon0)
        lon == lon0 + shift
        lat_sel == SliceIdx(first_array.latitude, lat - radius - 1, lat + radius + 1)
        lon_sel == SliceIdx(first_array.longitude, lon0 - radius - 1 + shift,
                                                   lon0 + radius + 1 + shift)
        all_lat == [i \in DOMAIN first_array.latitude |-> i]
        all_lon == [j \in DOMAIN first_array.longitude |-> j]
    IN  IF lat_sel = << >> \/ lon_sel = << >>
        THEN [i \in DOMAIN data_arrays |->
                 Let(NearestNeighbour(data_arrays[i], all_lat, all_lon, lat, lon,
                                      "nearest on grid"),
                     LAMBDA r : Averaged(r, {}, r.value))]
        ELSE
          LET mask == CircularMask(first_array, lat_sel, lon_sel, lat, lon, radius)
          IN  [i \in DOMAIN data_arrays |->
                LET da == data_arrays[i]
                    combined_mask == { c \in mask : ~ ValueAt(da, c[1], c[2]).nan }
                    sum == WeightedSum(da, combined_mask)
                    fallback == NearestNeighbour(da, lat_sel, lon_sel, lat, lon,
                                                 "nearest in region")
                    result ==
                        IF mask = {} THEN fallback
                        ELSE IF Len(lat_sel) * Len(lon_sel) = 1
                        THEN [value |-> ValueAt(da, lat_sel[1], lon_sel[1]),
                              path |-> "single cell"]
                        ELSE IF combined_mask = {} THEN fallback
                        ELSE IF sum.total_weight = 0
                        THEN [value |-> NaN, path |-> "zero weight"]
                        ELSE IF sum.weighted_sum.nan
                        THEN [value |-> NaN, path |-> "undefined sum"]
                        ELSE [value |-> sum.weighted_sum, path |-> "weighted"]
                IN  Averaged(result, { ValueAt(da, c[1], c[2]) : c \in mask },
                             fallback.value)]

\* query longitudes of the convention [-180,180)
QueryLons == { -358, -240, -120, -2, 0, 240 }
\* radius_deg: the default 2.5 deg, and one reaching the neighbouring cells
Radii == { 5, 250 }

\* lines 1008-1010: the same point in the convention [0,360)
EastLon(lon) == IF lon < 0 THEN lon + 720 ELSE lon

InitAvg ==
    /\ OtherIdle
    /\ LoopIdle
    /\ ExtractIdle
    /\ QmIdle
    /\ CacheIdle
    /\ apc = "call"
    /\ ain \in [da : DataArrays, lat : { 0, 120 }, lon : QueryLons, radius : Radii]
    /\ aout = None

Average ==
    /\ apc = "call"
    /\ aout' = [west |-> extract_spatial_average(ain.da, ain.lat, ain.lon, ain.radius),
                east |-> extract_spatial_average(ain.da, ain.lat, EastLon(ain.lon),
                                                 ain.radius)]
    /\ apc' = "done"
    /\ UNCHANGED << ain, loopVars, extractVars, qmVars, cacheVars, otherVars >>

\* the same field with its two rows of latitude exchanged
Flipped(da) ==
    [da EXCEPT !.field = [c \in Cells |-> da.field[<< 120 - c[1], c[2] >>]]]

\* the fields handed to the batched variant: they share one grid
BatchArrays == << ain.da, Flipped(ain.da) >>

\* the batched call at the same point, and the single-field call on each
\* of its fields
AverageBatch ==
    /\ apc = "done"
    /\ aout' = [west |-> aout.west,
                east |-> aout.east,
                batch |-> extract_spatial_average_batch(BatchArrays, ain.lat, ain.lon,
                                                        ain.radius),
                each |-> [i \in DOMAIN BatchArrays |->
                             extract_spatial_average(BatchArrays[i], ain.lat, ain.lon,
                                                     ain.radius)]]
    /\ apc' = "batched"
    /\ UNCHANGED << ain, loopVars, extractVars, qmVars, cacheVars, otherVars >>

NextAvg ==
    \/ Average
    \/ AverageBatch

SpecAvg == InitAvg /\ [][NextAvg]_vars

(***************************************************************************)
(* apply_uqam_postprocessing.py.  An intensity is Val(n) m/s or NaN; a     *)
(* quantile value and a corrected intensity are fractions num/den.         *)
(***************************************************************************)
Nums(s) == [i \in DOMAIN s |-> s[i].num]

\* np.quantile(valid_intensities, np.linspace(0.01, 1.0, 100)), linear
\* interpolation between order statistics; values in hundredths
Quantile(sorted, k) ==
    LET h == (Len(sorted) - 1) * k
        i == h \div QuantileCount
        f == h - QuantileCount * i
    IN  QuantileCount * sorted[i + 1]
            + (IF f = 0 THEN 0 ELSE f * (sorted[i + 2] - sorted[i + 1]))

\* calculate_lmi_quantiles over every intensity, weak storms included
calculate_lmi_quantiles_Unfiltered(intensities) ==
    LET valid_intensities == Nums(SelectSeq(intensities, LAMBDA v : ~ v.nan))
        sorted == SortSeq(valid_intensities, LAMBDA a, b : a < b)
    IN  IF Len(valid_intensities) = 0
        THEN [k \in 1..QuantileCount |-> NaN]
        ELSE [k \in 1..QuantileCount |->
                 [nan |-> FALSE, num |-> Quantile(sorted, k), den |-> QuantileCount]]

calculate_lmi_quantiles(intensities) ==
    LET valid_intensities ==
            Nums(SelectSeq(intensities,
                           LAMBDA v : ~ v.nan /\ v.num >= StormThreshold))
        sorted == SortSeq(valid_intensities, LAMBDA a, b : a < b)
    IN  IF Len(valid_intensities) = 0
        THEN [k \in 1..QuantileCount |-> NaN]
        ELSE [k \in 1..QuantileCount |->
                 [nan |-> FALSE, num |-> Quantile(sorted, k), den |-> QuantileCount]]

\* the interpolation function as its nodes; raised is NoError when the
\* mapping is returned
create_quantile_mapping(observed_lmi, simulated_lmi) ==
    LET obs_quantiles == calculate_lmi_quantiles(observed_lmi)
        sim_quantiles == calculate_lmi_quantiles(simulated_lmi)
        valid_mask == SelectSeq([k \in 1..QuantileCount |-> k],
                        LAMBDA k : ~ sim_quantiles[k].nan /\ ~ obs_quantiles[k].nan)
    IN  IF Len(valid_mask) = 0
        THEN [raised |-> "ValueError: No valid quantiles for mapping"]
        ELSE [raised |-> NoError,
              x |-> [j \in DOMAIN valid_mask |-> sim_quantiles[valid_mask[j]].num],
              y |-> [j \in DOMAIN valid_mask |-> obs_quantiles[valid_mask[j]].num]]

RECURSIVE LastNotAbove(_, _, _)
\* the last node j >= from with x[j] <= v
LastNotAbove(x, v, from) ==
    IF from < Len(x) /\ x[from + 1] <= v THEN LastNotAbove(x, v, from + 1) ELSE from

\* mapping_func that goes on outside the nodes with slope 1 from the end nodes
mapping_func_Extrapolating(m, v) ==
    LET n == Len(m.x)
        xv == QuantileCount * v.num
        j == LastNotAbove(m.x, xv, 1)
    IN  IF v.nan THEN NaN
        ELSE IF xv < m.x[1]
             THEN [nan |-> FALSE, num |-> m.y[1] - (m.x[1] - xv), den |-> QuantileCount]
        ELSE IF xv > m.x[n] \/ j = n
             THEN [nan |-> FALSE, num |-> m.y[n] + (xv - m.x[n]), den |-> QuantileCount]
        ELSE [nan |-> FALSE,
              num |-> m.y[j] * (m.x[j + 1] - m.x[j]) + (m.y[j + 1] - m.y[j]) * (xv - m.x[j]),
              den |-> QuantileCount * (m.x[j + 1] - m.x[j])]

\* mapping_func(v): linear between the nodes, the end values outside them,
\* NaN for NaN
mapping_func(m, v) ==
    LET n == Len(m.x)
        xv == QuantileCount * v.num
        j == LastNotAbove(m.x, xv, 1)
    IN  IF v.nan THEN NaN
        ELSE IF xv < m.x[1] THEN [nan |-> FALSE, num |-> m.y[1], den |-> QuantileCount]
        ELSE IF xv > m.x[n] \/ j = n
             THEN [nan |-> FALSE, num |-> m.y[n], den |-> QuantileCount]
        ELSE [nan |-> FALSE,
              num |-> m.y[j] * (m.x[j + 1] - m.x[j]) + (m.y[j + 1] - m.y[j]) * (xv - m.x[j]),
              den |-> QuantileCount * (m.x[j + 1] - m.x[j])]

\* apply_quantile_correction that leaves the mapped values as they are
apply_quantile_correction_Unclamped(simulated_intensities, m) ==
    [i \in DOMAIN simulated_intensities |-> mapping_func(m, simulated_intensities[i])]

\* np.clip(corrected, 0, inf), then np.nan_to_num(nan=0.0, posinf=0.0)
apply_quantile_correction(simulated_intensities, m) ==
    [i \in DOMAIN simulated_intensities |->
        LET corrected == mapping_func(m, simulated_intensities[i])
        IN  IF corrected.nan \/ corrected.num < 0 THEN Val(0) ELSE corrected]

RECURSIVE Unique(_)
\* Series.unique(): the distinct values in order of first appearance
Unique(s) ==
    IF s = << >> THEN << >>
    ELSE LET front == Unique(SubSeq(s, 1, Len(s) - 1))
         IN  IF s[Len(s)] \in Range(front) THEN front ELSE Append(front, s[Len(s)])

Column(df, c) == [i \in DOMAIN df |-> df[i][c]]

\* np.where(np.isin(unique_storms, df[df[c] == g]['storm_id'].unique()))[0]
GroupStormIndices(df, c, g) ==
    LET unique_storms == Unique(Column(df, "storm_id"))
        group_storms == { df[i].storm_id : i \in { i \in DOMAIN df : df[i][c] = g } }
    IN  SelectSeq([i \in DOMAIN unique_storms |-> i],
                  LAMBDA i : unique_storms[i] \in group_storms)

Take(s, indices) == [j \in DOMAIN indices |-> s[indices[j]]]

\* corrected_lmi[indices] = values
Assign(corrected_lmi, indices, values) ==
    [i \in DOMAIN corrected_lmi |->
        IF \E j \in DOMAIN indices : indices[j] = i
        THEN values[CHOOSE j \in DOMAIN indices : indices[j] = i]
        ELSE corrected_lmi[i]]

\* CorrectGroup that gives every group a mapping of its own when it can
CorrectGroup_NoMinimum(acc, g, indices, specific, observed_lmi, simulated_lmi) ==
    LET own == create_quantile_mapping(Take(observed_lmi, indices),
                                       Take(simulated_lmi, indices))
        overall == create_quantile_mapping(observed_lmi, simulated_lmi)
        use(m, label) ==
            LET values == apply_quantile_correction(Take(simulated_lmi, indices), m)
            IN  [raised |-> NoError,
                 corrected_lmi |-> Assign(acc.corrected_lmi, indices, values),
                 mappings |-> Update(acc.mappings, [k \in { g } |-> label]),
                 steps |-> Append(acc.steps, [group |-> g, indices |-> indices,
                                              label |-> label, values |-> values])]
    IN  IF own.raised = NoError THEN use(own, specific)
        ELSE IF overall.raised # NoError THEN [acc EXCEPT !.raised = overall.raised]
        ELSE use(overall, "fallback_overall")

\* lines 198-229 and 236-264: one group, corrected into acc
CorrectGroup(acc, g, indices, specific, observed_lmi, simulated_lmi) ==
    LET own == create_quantile_mapping(Take(observed_lmi, indices),
                                       Take(simulated_lmi, indices))
        overall == create_quantile_mapping(observed_lmi, simulated_lmi)
        use(m, label) ==
            LET values == apply_quantile_correction(Take(simulated_lmi, indices), m)
            IN  [raised |-> NoError,
                 corrected_lmi |-> Assign(acc.corrected_lmi, indices, values),
                 mappings |-> Update(acc.mappings, [k \in { g } |-> label]),
                 steps |-> Append(acc.steps, [group |-> g, indices |-> indices,
                                              label |-> label, values |-> values])]
    IN  IF Len(indices) < MinGroupStorms
        THEN IF overall.raised # NoError THEN [acc EXCEPT !.raised = overall.raised]
             ELSE use(overall, "used_overall_mapping")
        ELSE IF own.raised = NoError THEN use(own, specific)
        ELSE IF overall.raised # NoError THEN [acc EXCEPT !.raised = overall.raised]
        ELSE use(overall, "fallback_overall")

\* CorrectPhases that stops after the first phase
CorrectPhases_FirstOnly(acc, phases, df, observed_lmi, simulated_lmi) ==
    IF phases = << >> \/ acc.raised # NoError THEN acc
    ELSE CorrectGroup(acc, Head(phases),
                      GroupStormIndices(df, "enso_phase", Head(phases)),
                      "phase_specific", observed_lmi, simulated_lmi)

RECURSIVE CorrectPhases(_, _, _, _, _)
\* the loop of line 191 over the phases, until one raises
CorrectPhases(acc, phases, df, observed_lmi, simulated_lmi) ==
    IF phases = << >> \/ acc.raised # NoError THEN acc
    ELSE CorrectPhases(
            CorrectGroup(acc, Head(phases),
                         GroupStormIndices(df, "enso_phase", Head(phases)),
                         "phase_specific", observed_lmi, simulated_lmi),
            Tail(phases), df, observed_lmi, simulated_lmi)

\* (corrected_lmi, mapping_info) or the exception raised; basin is Missing
\* or a basin name.  steps is the history of the groups corrected: the
\* storms of each, the strategy recorded and the values assigned.
apply_postprocessing_to_storms(df, observed_lmi, simulated_lmi, basin, per_enso_phase) ==
    LET unique_storms == Unique(Column(df, "storm_id"))
        start == [raised |-> NoError,
                  corrected_lmi |-> [i \in DOMAIN simulated_lmi |-> NaN],
                  mappings |-> EmptyDict,
                  steps |-> << >>]
        overall == create_quantile_mapping(observed_lmi, simulated_lmi)
    IN  IF basin # Missing /\ per_enso_phase
        THEN [start EXCEPT !.raised = "ValueError: both basin and per_enso_phase"]
        ELSE IF Len(unique_storms) # Len(observed_lmi)
                    \/ Len(unique_storms) # Len(simulated_lmi)
        THEN [start EXCEPT !.raised = "ValueError: Mismatch"]
        ELSE IF per_enso_phase
        THEN CorrectPhases(start,
                           Unique(SelectSeq(Column(df, "enso_phase"),
                                            LAMBDA p : p # Missing)),
                           df, observed_lmi, simulated_lmi)
        ELSE IF basin # Missing
        THEN CorrectGroup(start, basin, GroupStormIndices(df, "basin", basin),
                          "basin_specific", observed_lmi, simulated_lmi)
        ELSE IF overall.raised # NoError THEN [start EXCEPT !.raised = overall.raised]
        ELSE [raised |-> NoError,
              corrected_lmi |-> apply_quantile_correction(simulated_lmi, overall),
              mappings |-> [k \in { "all" } |-> "overall"],
              steps |-> << >>]

\* groupby('storm_id')[c].max().values: one maximum per storm, the storms
\* in sorted order of their ids
GroupMax(df, c) ==
    LET ids == SeqOfSet(Range(Column(df, "storm_id")))
    IN  [k \in DOMAIN ids |->
            LET xs == { df[i][c].num : i \in { i \in DOMAIN df : df[i].storm_id = ids[k] } }
            IN  Val(CHOOSE m \in xs : \A x \in xs : x <= m)]

\* lines 310-363 of main: the storms and the two arrays handed to
\* apply_postprocessing_to_storms
main_lmi(df) ==
    [unique_storms |-> Unique(Column(df, "storm_id")),
     observed_lmi |-> GroupMax(df, "max_wind_ms"),
     simulated_lmi |-> GroupMax(df, "predicted_intensity")]

\* ---- inputs ----
LmiValues == { NaN, Val(10), Val(18), Val(30) }
LmiArrays == UNION { [1..n -> LmiValues] : n \in 1..MaxLmi }
\* intensities far below, between and far above the quantiles
Probes == << Val(-1000), Val(0), Val(17), Val(24), Val(1000) >>

FitInputs == [op : { "fit" }, observed_lmi : LmiArrays, simulated_lmi : LmiArrays]

\* a table of na storms of phase A (basin NA), nb storms of phase B (basin
\* WP), one row each, and then, if straddler, a storm with a row in each
StormTable(na, nb, straddler) ==
    [i \in 1..(na + nb) |->
        [storm_id |-> i,
         enso_phase |-> IF i <= na THEN "A" ELSE "B",
         basin |-> IF i <= na THEN "NA" ELSE "WP"]]
    \o (IF straddler
        THEN << [storm_id |-> na + nb + 1, enso_phase |-> "A", basin |-> "NA"],
                [storm_id |-> na + nb + 1, enso_phase |-> "B", basin |-> "WP"] >>
        ELSE << >>)

\* the i-th intensity of a group of storms
Pattern(name, i) ==
    CASE name = "weak" -> Val(10)
      [] name = "flat" -> Val(30)
      [] name = "ramp" -> Val(20 + 5 * i)
      [] name = "gap"  -> IF i = 1 THEN NaN ELSE Val(20 + 5 * i)

\* observed intensities are never missing, simulated ones can be
ObservedPatterns == { "weak", "flat", "ramp" }
SimulatedPatterns == ObservedPatterns \cup { "gap" }

\* one intensity per storm of StormTable, in the order of its storms
LmiOf(na, nb, straddler, pa, pb) ==
    [i \in 1..(na + nb + (IF straddler THEN 1 ELSE 0)) |->
        IF i <= na THEN Pattern(pa, i)
        ELSE IF i <= na + nb THEN Pattern(pb, i - na)
        ELSE Pattern(pa, na + 1)]

PostInputs ==
    { [op |-> "postprocess",
       df |-> StormTable(na, nb, s),
       observed_lmi |-> LmiOf(na, nb, s, p[1], p[2]),
       simulated_lmi |-> LmiOf(na, nb, s, p[3], p[4]),
       basin |-> mode[1],
       per_enso_phase |-> mode[2]] :
        na \in { 8, 10 }, nb \in { 1, 10 }, s \in BOOLEAN,
        p \in ObservedPatterns \X ObservedPatterns \X SimulatedPatterns \X SimulatedPatterns,
        mode \in { << Missing, FALSE >>, << Missing, TRUE >>,
                   << "NA", FALSE >>, << "NA", TRUE >> } }

MainRows == [storm_id : 1..2, max_wind_ms : { Val(20), Val(30) },
             predicted_intensity : { Val(10), Val(40) }]
MainInputs == [op : { "main" }, df : UNION { [1..n -> MainRows] : n \in 1..MaxRows }]

InitQM ==
    /\ OtherIdle
    /\ LoopIdle
    /\ ExtractIdle
    /\ AvgIdle
    /\ CacheIdle
    /\ qpc = "call"
    /\ qin \in FitInputs \cup PostInputs \cup MainInputs
    /\ qout = None

\* create_quantile_mapping, then apply_quantile_correction on the simulated
\* intensities and on the probes
FitAndApply ==
    /\ qpc = "call"
    /\ qin.op = "fit"
    /\ \E m \in { create_quantile_mapping(qin.observed_lmi, qin.simulated_lmi) } :
          qout' = IF m.raised # NoError THEN m
                  ELSE [raised |-> NoError, x |-> m.x, y |-> m.y,
                        corrected |-> apply_quantile_correction(qin.simulated_lmi, m),
                        probed |-> apply_quantile_correction(Probes, m)]
    /\ qpc' = "done"
    /\ UNCHANGED << qin, loopVars, extractVars, avgVars, cacheVars, otherVars >>

Postprocess ==
    /\ qpc = "call"
    /\ qin.op = "postprocess"
    /\ qout' = apply_postprocessing_to_storms(qin.df, qin.observed_lmi,
                                              qin.simulated_lmi, qin.basin,
                                              qin.per_enso_phase)
    /\ qpc' = "done"
    /\ UNCHANGED << qin, loopVars, extractVars, avgVars, cacheVars, otherVars >>

Main ==
    /\ qpc = "call"
    /\ qin.op = "main"
    /\ qout' = main_lmi(qin.df)
    /\ qpc' = "done"
    /\ UNCHANGED << qin, loopVars, extractVars, avgVars, cacheVars, otherVars >>

NextQM ==
    \/ FitAndApply
    \/ Postprocess
    \/ Main

SpecQM == InitQM /\ [][NextQM]_vars

(***************************************************************************)
(* _coordinate_cache: threads running                                      *)
(* extract_all_environmental_variables_at_tc_location at the same time.    *)
(* Of each extraction only the three places that touch the cache are kept. *)
(***************************************************************************)
Threads == 1..MaxThreads

\* the kind of the key used at each place: lines 563, 704 and 774
CacheSites == << "plev_coords", "sl_coords", "sl_coords" >>

\* an extraction: its month, the datasets it was given, and whether SST is
\* still missing when the ERA5 fallback of line 770 is reached
ThreadInputs ==
    { i \in [ym : Months, plev : BOOLEAN, sl : BOOLEAN, sst_missing : BOOLEAN] :
        (i.plev \/ i.sl) /\ (i.sst_missing => i.sl) }

cache_key(t) == << tin[t].ym, CacheSites[tpc[t].site] >>

\* the guards of lines 559, 700 and 770
SiteApplies(t) ==
    CASE tpc[t].site = 1 -> tin[t].plev
      [] tpc[t].site = 2 -> tin[t].sl
      [] tpc[t].site = 3 -> tin[t].sl /\ tin[t].sst_missing

AtSite(t) == tpc[t].site <= Len(CacheSites) /\ tpc[t].stage = "out"

InitCache ==
    /\ OtherIdle
    /\ LoopIdle
    /\ ExtractIdle
    /\ AvgIdle
    /\ QmIdle
    /\ coordinate_cache = EmptyDict
    /\ coord_cache_lock = 0
    /\ tin \in [Threads -> ThreadInputs]
    /\ tpc = [t \in Threads |-> [site |-> 1, stage |-> "out"]]
    /\ cacheWrites = << >>

\* the section of the function is not entered
SkipSite(t) ==
    /\ AtSite(t)
    /\ ~ SiteApplies(t)
    /\ tpc' = [tpc EXCEPT ![t].site = @ + 1]
    /\ UNCHANGED << coordinate_cache, coord_cache_lock, tin, cacheWrites >>

\* EnterLock entered whoever holds the lock
EnterLock_NotExclusive(t) ==
    /\ AtSite(t)
    /\ SiteApplies(t)
    /\ coord_cache_lock' = t
    /\ tpc' = [tpc EXCEPT ![t].stage = "test"]
    /\ UNCHANGED << coordinate_cache, tin, cacheWrites >>

\* with _coord_cache_lock:
EnterLock(t) ==
    /\ AtSite(t)
    /\ SiteApplies(t)
    /\ coord_cache_lock = 0
    /\ coord_cache_lock' = t
    /\ tpc' = [tpc EXCEPT ![t].stage = "test"]
    /\ UNCHANGED << coordinate_cache, tin, cacheWrites >>

\* if cache_key not in _coordinate_cache:
TestAbsent(t) ==
    /\ tpc[t].stage = "test"
    /\ tpc' = [tpc EXCEPT ![t].stage =
                  IF cache_key(t) \in DOMAIN coordinate_cache THEN "read" ELSE "write"]
    /\ UNCHANGED << coordinate_cache, coord_cache_lock, tin, cacheWrites >>

\* _coordinate_cache[cache_key] = {...}: the coordinates of the thread's dataset
Populate(t) ==
    /\ tpc[t].stage = "write"
    /\ coordinate_cache' = Update(coordinate_cache,
                                  [k \in { cache_key(t) } |-> Dataset(tin[t].ym)])
    /\ cacheWrites' = Append(cacheWrites, [key |-> cache_key(t), by |-> t])
    /\ tpc' = [tpc EXCEPT ![t].stage = "read"]
    /\ UNCHANGED << coord_cache_lock, tin >>

\* coords = _coordinate_cache[cache_key], and the end of the with block
ReadAndRelease(t) ==
    /\ tpc[t].stage = "read"
    /\ cache_key(t) \in DOMAIN coordinate_cache
    /\ coord_cache_lock' = 0
    /\ tpc' = [tpc EXCEPT ![t] = [site |-> @.site + 1, stage |-> "out"]]
    /\ UNCHANGED << coordinate_cache, tin, cacheWrites >>

NextCache ==
    \E t \in Threads :
        /\ \/ SkipSite(t)
           \/ EnterLock(t)
           \/ TestAbsent(t)
           \/ Populate(t)
           \/ ReadAndRelease(t)
        /\ UNCHANGED << loopVars, extractVars, avgVars, qmVars, otherVars >>

SpecCache == InitCache /\ [][NextCache]_vars

(***************************************************************************)
(* _monthly_data_cache: any sequence of calls of load_monthly_era5_grids   *)
(* and load_monthly_oras5_grid, with the flag ENABLE_CACHE either way.     *)
(***************************************************************************)
CachedKeys == { monthly_data_cache[i].key : i \in DOMAIN monthly_data_cache }

CachedValue(key) ==
    monthly_data_cache[CHOOSE i \in DOMAIN monthly_data_cache :
                           monthly_data_cache[i].key = key].value

\* cached = _monthly_data_cache.pop(cache_key); _monthly_data_cache[cache_key]
\* = cached: the entry moves to the end of the dict
Touch(cache, key) ==
    SelectSeq(cache, LAMBDA e : e.key # key) \o SelectSeq(cache, LAMBDA e : e.key = key)

\* what the files of the month give when they are opened
FromDisk(kind, ym, present) ==
    IF kind = "era5" THEN load_monthly_era5_grids(ym, present)
    ELSE load_monthly_oras5_grid(ym, present)

\* one call of a loader: the cache after it and the record of the call
LoaderCall(kind, ym, present) ==
    LET month_key == << ym, kind >>
    IN  IF ENABLE_CACHE /\ month_key \in CachedKeys
        THEN [cache |-> Touch(monthly_data_cache, month_key),
              call |-> [key |-> month_key, from |-> "cache",
                        loaded |-> CachedValue(month_key) # None]]
        ELSE [cache |-> monthly_data_cache,
              call |-> [key |-> month_key, from |-> "disk",
                        loaded |-> FromDisk(kind, ym, present) # None]]

LoaderCalls(kind) ==
    { LoaderCall(kind, ym, present) : ym \in Months, present \in FilePresence }

InitLoad ==
    /\ LoopIdle
    /\ ExtractIdle
    /\ AvgIdle
    /\ QmIdle
    /\ CacheIdle
    /\ DecayIdle
    /\ CleanIdle
    /\ ENABLE_CACHE \in BOOLEAN
    /\ monthly_data_cache = << >>
    /\ loadCalls = << >>

\* lines 471-511
LoadEra5 ==
    /\ Len(loadCalls) < MaxCalls
    /\ \E c \in LoaderCalls("era5") :
          /\ monthly_data_cache' = c.cache
          /\ loadCalls' = Append(loadCalls, c.call)
    /\ UNCHANGED << ENABLE_CACHE, decayVars, cleanVars >>
    /\ UNCHANGED << loopVars, extractVars, avgVars, qmVars, cacheVars >>

\* lines 513-537
LoadOras5 ==
    /\ Len(loadCalls) < MaxCalls
    /\ \E c \in LoaderCalls("oras5") :
          /\ monthly_data_cache' = c.cache
          /\ loadCalls' = Append(loadCalls, c.call)
    /\ UNCHANGED << ENABLE_CACHE, decayVars, cleanVars >>
    /\ UNCHANGED << loopVars, extractVars, avgVars, qmVars, cacheVars >>

NextLoad ==
    \/ LoadEra5
    \/ LoadOras5

SpecLoad == InitLoad /\ [][NextLoad]_vars

(***************************************************************************)
(* add_landfall_and_kd_decay of generate_event_set.py.  A row of the event *)
(* set carries its track, its intensity, its time and the outcome of the   *)
(* bathymetry lookup at its position; the decay formula itself is a pure   *)
(* function of another package and is kept as a term.                      *)
(***************************************************************************)
TrackIds == { 1, 2 }

Wind(n) == [decayed |-> FALSE, v |-> n]

kaplan_demaria_decay(v_landfall, hours, decay_rate, v_inland) ==
    [decayed |-> TRUE, v_landfall |-> v_landfall, hours |-> hours,
     decay_rate |-> decay_rate, v_inland |-> v_inland]

\* outcomes of extract_bathymetry_at_location(row['lat'], row['lon'])
BathymetryOutcomes ==
    { [raises |-> FALSE, value |-> v] : v \in { Val(0 - 5), Val(0), NaN } }
        \cup { [raises |-> TRUE, value |-> NaN] }

EventRows(n) ==
    { [k \in 1..n |-> [track_id |-> ids[k], wind_speed_ms |-> Wind(30 + k),
                       time_hours |-> 6 * k, location |-> loc[k]]] :
        ids \in [1..n -> TrackIds], loc \in [1..n -> BathymetryOutcomes] }

EventSets == UNION { EventRows(n) : n \in 1..MaxPoints }

\* lines 46-52
Bathymetry(row) == IF row.location.raises THEN NaN ELSE row.location.value

\* line 55
IsLand(bathy) == ~bathy.nan /\ bathy.num >= 0

\* lines 61-62: the positions of the rows of one track, in table order
TrackRows(df, track_id) ==
    SelectSeq([i \in DOMAIN df |-> i], LAMBDA i : df[i].track_id = track_id)

RECURSIVE DecayOverLand(_, _, _, _, _, _)
\* lines 77-86
DecayOverLand(wind_speeds, is_land, times, v_landfall, t_landfall, j) ==
    IF j <= Len(is_land) /\ is_land[j]
    THEN DecayOverLand(
             [wind_speeds EXCEPT
                 ![j] = kaplan_demaria_decay(v_landfall, times[j] - t_landfall, 90, 18)],
             is_land, times, v_landfall, t_landfall, j + 1)
    ELSE wind_speeds

RECURSIVE LandfallEvents(_, _, _, _)
\* lines 70-86; positions count from 1, so range(1, len) starts at 2
LandfallEvents(wind_speeds, is_land, times, i) ==
    IF i > Len(is_land)
    THEN wind_speeds
    ELSE LandfallEvents(
             IF ~is_land[i - 1] /\ is_land[i]
             THEN DecayOverLand(wind_speeds, is_land, times,
                                wind_speeds[i - 1], times[i], i)
             ELSE wind_speeds,
             is_land, times, i + 1)

\* lines 61-89 for one track: the decayed copy goes to column 'wind_speed'
DecayTrack(df, track_id) ==
    LET rows == TrackRows(df, track_id)
        is_land == [p \in DOMAIN rows |-> df[rows[p]].is_land]
        wind_speeds == LandfallEvents(
                           [p \in DOMAIN rows |-> df[rows[p]].wind_speed_ms],
                           is_land,
                           [p \in DOMAIN rows |-> df[rows[p]].time_hours],
                           2)
        position(i) == CHOOSE p \in DOMAIN rows : rows[p] = i
    IN  [i \in DOMAIN df |->
            IF df[i].track_id = track_id
            THEN [df[i] EXCEPT !.wind_speed = wind_speeds[position(i)]]
            ELSE df[i]]

RECURSIVE DecayTracks(_, _)
\* line 60
DecayTracks(df, track_ids) ==
    IF track_ids = << >>
    THEN df
    ELSE DecayTracks(DecayTrack(df, Head(track_ids)), Tail(track_ids))

\* lines 32-96; column 'wind_speed' does not exist before line 89 and is NaN
\* in the rows not assigned yet
add_landfall_and_kd_decay(df) ==
    LET with_land ==
            [i \in DOMAIN df |->
                [track_id |-> df[i].track_id,
                 wind_speed_ms |-> df[i].wind_speed_ms,
                 time_hours |-> df[i].time_hours,
                 bathymetry |-> Bathymetry(df[i]),
                 is_land |-> IsLand(Bathymetry(df[i])),
                 wind_speed |-> NaN]]
    IN  DecayTracks(with_land, Unique(Column(df, "track_id")))

InitDecay ==
    /\ LoopIdle
    /\ ExtractIdle
    /\ AvgIdle
    /\ QmIdle
    /\ CacheIdle
    /\ LoadIdle
    /\ CleanIdle
    /\ dpc = "call"
    /\ din \in EventSets
    /\ dout = None

AddLandfallAndKdDecay ==
    /\ dpc = "call"
    /\ dout' = add_landfall_and_kd_decay(din)
    /\ dpc' = "done"
    /\ UNCHANGED << din, loadVars, cleanVars >>
    /\ UNCHANGED << loopVars, extractVars, avgVars, qmVars, cacheVars >>

NextDecay == AddLandfallAndKdDecay

SpecDecay == InitDecay /\ [][NextDecay]_vars

(***************************************************************************)
(* clean_tc_dataset of clean_tc_data.py.  The disk maps a path to the text *)
(* of a CSV file: one tuple of cell texts per data row.  A path is the     *)
(* tuple of the parts of its stem.                                         *)
(***************************************************************************)
Columns == << "translation_speed", "sst", "pi" >>

\* cell texts of the file given to the first run, and of any file
InputTexts == { "", "NA", "1" }

\* pandas.read_csv: an empty cell and 'NA' are missing values
IsMissingText(text) == text \in { "", "NA" }

IsIntegerText(text) == text = "1"

\* pandas.read_csv: a column of integer literals only is int64, a column with
\* a missing or a float cell is float64, a column of no rows is object
ColumnType(file, c) ==
    IF file = << >> THEN "object"
    ELSE IF \A k \in DOMAIN file : IsIntegerText(file[k][c]) THEN "int64"
    ELSE "float64"

\* line 60
read_csv(file) ==
    [dtypes |-> [c \in DOMAIN Columns |-> ColumnType(file, c)],
     rows |-> [k \in DOMAIN file |->
                  [c \in DOMAIN Columns |->
                      IF IsMissingText(file[k][c]) THEN NaN ELSE Val(1)]]]

\* DataFrame.to_csv(index=False): a missing value is an empty cell, a float
\* is written with its decimal point
to_csv(df) ==
    [k \in DOMAIN df.rows |->
        [c \in DOMAIN Columns |->
            IF df.rows[k][c].nan THEN ""
            ELSE IF df.dtypes[c] = "int64" THEN "1"
            ELSE "1.0"]]

ColumnIndex(name) == CHOOSE c \in DOMAIN Columns : Columns[c] = name

\* df[~df[name].isna()].copy()
DropMissing(df, name) ==
    [df EXCEPT !.rows = SelectSeq(df.rows, LAMBDA row : ~row[ColumnIndex(name)].nan)]

NoPath == << >>

InputFile == << "tc_training_data" >>

\* line 56
BackupFile == Append(InputFile, "_original")

\* lines 50-54
OutputFile(output_file) ==
    IF output_file = NoPath THEN Append(InputFile, "_cleaned") ELSE output_file

Exists(d, path) == path \in DOMAIN d

WriteFile(d, path, file) ==
    [p \in DOMAIN d \cup { path } |-> IF p = path THEN file ELSE d[p]]

CreateBackup_Always(d, df, create_backup) ==
    IF create_backup
    THEN WriteFile(d, BackupFile, to_csv(df))
    ELSE d

\* lines 64-70
CreateBackup(d, df, create_backup) ==
    IF create_backup /\ ~Exists(d, BackupFile)
    THEN WriteFile(d, BackupFile, to_csv(df))
    ELSE d

\* lines 20-145; the percentages printed at lines 86, 98 and 120 divide by the
\* number of rows before the rule
clean_tc_dataset(d, output_file, create_backup, replace_original) ==
    IF ~Exists(d, InputFile)
    THEN [disk |-> d, raised |-> "FileNotFoundError", read |-> read_csv(<< >>),
          df |-> read_csv(<< >>)]
    ELSE
    LET df == read_csv(d[InputFile])
        backed_up == CreateBackup(d, df, create_backup)
        rule1 == DropMissing(df, "translation_speed")
        rule2 == DropMissing(rule1, "sst")
        cleaned == DropMissing(rule2, "pi")
        saved == WriteFile(backed_up, OutputFile(output_file), to_csv(cleaned))
    IN  IF Len(df.rows) = 0 \/ Len(rule1.rows) = 0
        THEN [disk |-> backed_up, raised |-> "ZeroDivisionError", read |-> df,
              df |-> read_csv(<< >>)]
        ELSE [disk |-> IF replace_original
                       THEN WriteFile(saved, InputFile, to_csv(cleaned))
                       ELSE saved,
              raised |-> NoError, read |-> df, df |-> cleaned]

CsvFiles(n) == [1..n -> [DOMAIN Columns -> InputTexts]]

\* a backup left at the backup path by an earlier data set
StaleBackup == << [c \in DOMAIN Columns |-> "1"] >>

InitClean ==
    /\ LoopIdle
    /\ ExtractIdle
    /\ AvgIdle
    /\ QmIdle
    /\ CacheIdle
    /\ LoadIdle
    /\ DecayIdle
    /\ \E n \in 0..MaxRecords : \E file \in CsvFiles(n) :
          disk \in { WriteFile(EmptyDict, InputFile, file),
                     WriteFile(WriteFile(EmptyDict, InputFile, file),
                               BackupFile, StaleBackup) }
    /\ cleanRuns = << >>

\* one run with create_backup and replace_original left at True
CleanRun ==
    /\ Len(cleanRuns) < MaxRuns
    /\ \E output_file \in { NoPath, BackupFile } :
          LET run == clean_tc_dataset(disk, output_file, TRUE, TRUE)
          IN  /\ disk' = run.disk
              /\ cleanRuns' = Append(cleanRuns,
                     [output_file |-> output_file,
                      backup_existed |-> Exists(disk, BackupFile),
                      raised |-> run.raised, read |-> run.read, df |-> run.df])
    /\ UNCHANGED << loadVars, decayVars >>
    /\ UNCHANGED << loopVars, extractVars, avgVars, qmVars, cacheVars >>

NextClean == CleanRun

SpecClean == InitClean /\ [][NextClean]_vars

(***************************************************************************)
(* Properties of the month loop                                            *)
(***************************************************************************)
RowObs == { all_variables_list[i].obs : i \in DOMAIN all_variables_list }
FailedObs == Range(failed_observations)
CalledObs == { extractCalls[i].idx : i \in DOMAIN extractCalls }
ObsOfMonth(ym) == { i \in DOMAIN ibtracs_df : ibtracs_df[i] = ym }
OpenMonths == { h.ym : h \in open }

\* C1: at no point of the month loop are grid handles of two different
\* months open at once (the handles of a month are closed before the grids
\* of the next month are loaded)
C1_OneMonthOpen == Cardinality(OpenMonths) <= 1

\* C2: every handle acquired for a month is closed when the processing of
\* that month is left, whatever the path; none is open between two months
\* or after the run
C2_ClosedOnEveryExit == pc \in {"for_month", "done"} => open = {}

C3_State ==
    /\ stats.failed = Len(failed_observations)
    /\ \A k \in DOMAIN loadLog :
          (~ loadLog[k].era5 /\ k < mi) =>
              \A i \in ObsOfMonth(loadLog[k].ym) :
                  /\ i \in FailedObs
                  /\ i \notin CalledObs
                  /\ i \notin RowObs

C3_Step ==
    (pc = "loaded" /\ era5_datasets = None) =>
        /\ pc' = "for_month"
        /\ mi' = mi + 1
        /\ extractCalls' = extractCalls
        /\ stats'.failed = stats.failed + Cardinality(ObsOfMonth(current_month))

\* C3: when load_monthly_era5_grids returns no data for a month, every
\* observation of the month is added to failed_observations and counted as
\* failed, the extraction is called for none of them, and the loop goes on
\* to the next month
C3_NoEra5MonthIsSkipped == [] C3_State /\ [][C3_Step]_vars

C3_Witness ==
    /\ pc = "loaded"
    /\ mi = 2
    /\ ~ loadLog[1].era5
    /\ Cardinality(ObsOfMonth(loadLog[1].ym)) >= 2
    /\ failed_observations = month_obs_index(loadLog[1].ym)

LastCall == extractCalls[Len(extractCalls)]

C4_Step ==
    (extractCalls' # extractCalls /\ LastCall'.raised # NoError) =>
        /\ failed_observations' = Append(failed_observations, LastCall'.idx)
        /\ all_variables_list' = all_variables_list
        /\ pc' = "loaded"
        /\ mi' = mi
        /\ oi' = oi + 1

C4_Done ==
    pc = "done" =>
        /\ \A k \in DOMAIN loadLog :
              loadLog[k].era5 => ObsOfMonth(loadLog[k].ym) \subseteq CalledObs
        /\ \A k \in DOMAIN extractCalls :
              IF extractCalls[k].raised = NoError
              THEN extractCalls[k].idx \in RowObs \ FailedObs
              ELSE extractCalls[k].idx \in FailedObs \ RowObs

\* how far the loop has got: month, then inside the month, then observation
Position ==
    (2 * mi + (IF pc = "for_month" THEN 0 ELSE 1)) * (MaxObs + 2)
        + (IF pc = "loaded" THEN oi ELSE 0)

\* no step leaves the loop other than to the summary, and every step advances
C4_Progress ==
    /\ pc' \in {"for_month", "loaded", "done"}
    /\ Position' > Position

\* C4: a failed extraction is recorded as the failure of that observation
\* only, the loop goes on with the next observation, every observation of a
\* month with grids is processed, and the run ends at the summary: no step
\* aborts it and every step advances it
C4_FailureIsLocal == [][C4_Step /\ C4_Progress]_vars /\ [] C4_Done

C4_Witness ==
    /\ pc = "done"
    /\ Len(extractCalls) = 3
    /\ extractCalls[1].raised # NoError
    /\ extractCalls[2].raised = NoError
    /\ extractCalls[3].raised = NoError
    /\ ibtracs_df[extractCalls[1].idx] = ibtracs_df[extractCalls[2].idx]
    /\ ibtracs_df[extractCalls[2].idx] # ibtracs_df[extractCalls[3].idx]

\* C8: when the PI kernel raises for an observation, the exception leaves
\* the extraction, no pi value is stored, the observation has no row in the
\* output table and it is counted as failed
C8_KernelFailureFailsObservation ==
    /\ stats.failed = Len(failed_observations)
    /\ \A k \in DOMAIN extractCalls :
          extractCalls[k].kernel = "raise" =>
              /\ extractCalls[k].raised = "RuntimeError: kernel"
              /\ ~ extractCalls[k].pi_stored
              /\ extractCalls[k].idx \notin RowObs
              /\ extractCalls[k].idx \in FailedObs

C8_Witness ==
    /\ pc = "done"
    /\ \E k \in DOMAIN extractCalls : extractCalls[k].kernel = "raise"
    /\ all_variables_list # << >>

(***************************************************************************)
(* Properties of the extraction                                            *)
(***************************************************************************)
HasTriplet == TripletKeys \subseteq DOMAIN variables
HasNoTriplet == TripletKeys \cap DOMAIN variables = {}

\* C5: the extraction raises whenever the N-level triplet was not fully
\* assembled; it never goes on to a normal return from the PI section with
\* the triplet absent, whatever other fields are present
C5_RaisesWithoutTriplet ==
    [][(xpc = "pi" /\ ~ HasTriplet) => xpc' = "raised"]_vars

\* C6: at every point of the extraction the mapping holds all three
\* transient profile arrays or none of them
C6_TripletAllOrNothing == xpc # "off" => (HasTriplet \/ HasNoTriplet)

\* temperature is in the pressure-level file and humidity is not
C6_Witness ==
    /\ xpc = "pi"
    /\ "temperature_850" \in DOMAIN variables
    /\ "specific_humidity_850" \notin DOMAIN variables
    /\ HasNoTriplet

\* C7: the PI kernel is called only with three arrays of exactly N levels,
\* and these are N distinct levels of the source grid: a grid with fewer
\* levels is not padded into an N-level profile
C7_KernelGetsNSourceLevels ==
    kernelArgs # None =>
        /\ Len(kernelArgs.temperature_profile) = PiLevelCount
        /\ Len(kernelArgs.specific_humidity_profile) = PiLevelCount
        /\ Len(kernelArgs.pressure_levels) = PiLevelCount
        /\ Cardinality(Range(kernelArgs.temperature_profile)) = PiLevelCount
        /\ Cardinality(Range(kernelArgs.pressure_levels)) = PiLevelCount

(***************************************************************************)
(* Properties of the spatial average                                       *)
(***************************************************************************)
SameValue(a, b) ==
    \/ a.nan /\ b.nan
    \/ /\ ~ a.nan /\ ~ b.nan
       /\ (a.den = 0) = (b.den = 0)
       /\ IF a.den = 0 THEN a.num = b.num ELSE a.num * b.den = b.num * a.den

\* C9: for the same field and the same physical point the average is the
\* same whether the query longitude is given in [-180,180) or in [0,360), on
\* a grid of either longitude convention
C9_LongitudeConventionInvariant ==
    apc = "done" => SameValue(aout.west.value, aout.east.value)

ConstantField(c) == \A cell \in Cells : ain.da.field[cell] = Val(c)

\* C10: on a field with the same finite value c at every cell the average
\* is c, for every center, radius and longitude convention and on every path
C10_ConstantFieldGivesConstant ==
    \A c \in { 1, 2 } :
        (apc = "done" /\ ConstantField(c)) =>
            /\ SameValue(aout.west.value, Val(c))
            /\ SameValue(aout.east.value, Val(c))

\* a constant field averaged over cells of two latitudes
C10_Witness ==
    /\ apc = "done"
    /\ ConstantField(2)
    /\ aout.west.path = "weighted"
    /\ aout.west.value.den >= 150

\* angular distance between two meridians, around the globe
MeridianDistance(a, b) ==
    LET d == (a - b) % 720 IN IF d > 360 THEN 720 - d ELSE d

\* the values of the cells of the whole field nearest to the point (lat, lon)
NearestValues(da, lat, lon) ==
    { da.field[c] : c \in { c \in Cells :
        \A o \in Cells : /\ Abs(c[1] - lat) <= Abs(o[1] - lat)
                         /\ MeridianDistance(c[2], lon) <= MeridianDistance(o[2], lon) } }

NearestPaths == { "nearest on grid", "nearest in region" }

\* C11: when the bounding box selects nothing or the circular mask is empty,
\* the average is the value of the cell of the whole field nearest to the
\* query point
C11_FallbackIsNearestCell ==
    apc = "done" =>
        /\ aout.west.path \in NearestPaths
              => aout.west.value \in NearestValues(ain.da, ain.lat, ain.lon)
        /\ aout.east.path \in NearestPaths
              => aout.east.value \in NearestValues(ain.da, ain.lat, EastLon(ain.lon))

\* C17: the mapping returned by the extraction never holds any of the three
\* transient profile arrays, whatever source fields are available
C17_TransientKeysNotReturned == xpc = "returned" => HasNoTriplet

LoadedMonths == { loadLog[k].ym : k \in DOMAIN loadLog }

\* one load of each kind per month: no month twice, and at the summary every
\* month of the table
C19_State ==
    /\ Cardinality(LoadedMonths) = Len(loadLog)
    /\ pc = "done" => LoadedMonths = Range(ibtracs_df)

\* an observation is extracted with open datasets of its own month only, and
\* the datasets of a month are closed after all its observations
C19_Step ==
    /\ extractCalls' # extractCalls =>
          /\ ibtracs_df[extractCalls'[Len(extractCalls')].idx] = loadLog[Len(loadLog)].ym
          /\ \A h \in HandlesOf(era5_datasets, oras5_dataset) :
                h \in open /\ h.ym = ibtracs_df[extractCalls'[Len(extractCalls')].idx]
    /\ open' # open /\ open' \subseteq open =>
          ObsOfMonth(loadLog[Len(loadLog)].ym) \subseteq { extractCalls[k].idx : k \in DOMAIN extractCalls }

\* C19: the grids of each month present in the table are loaded exactly
\* once, the observations of the month are all processed between that load
\* and the close, and none is processed with the grids of another month
C19_GridsLoadedOncePerMonth == [] C19_State /\ [][C19_Step]_vars

\* two months interleaved in the table, all three observations extracted
C19_Witness ==
    /\ pc = "done"
    /\ ibtracs_df = << 1, 2, 1 >>
    /\ Len(loadLog) = 2
    /\ Len(extractCalls) = 3

(***************************************************************************)
(* Properties of the coordinate cache                                      *)
(***************************************************************************)
WrittenKeys == { cacheWrites[i].key : i \in DOMAIN cacheWrites }

\* each key written at most once; the test and the write are done by the
\* thread that holds the lock
C20_State ==
    /\ Cardinality(WrittenKeys) = Len(cacheWrites)
    /\ \A t \in DOMAIN tpc : tpc[t].stage # "out" => coord_cache_lock = t

\* an entry is never changed or removed
C20_Step ==
    \A k \in DOMAIN coordinate_cache :
        k \in DOMAIN coordinate_cache' /\ coordinate_cache'[k] = coordinate_cache[k]

\* C20: under any interleaving of the threads every key of the coordinate
\* cache is written at most once and never changed or removed afterwards,
\* and the test for absence and the write are inside one critical section
\* of the lock, so that two threads never both populate a key
C20_CachePopulatedOnce == [] C20_State /\ [][C20_Step]_vars

\* two extractions of the same month are over: one wrote the key of the
\* pressure-level coordinates, the other found it
C20_Witness ==
    \E t1, t2 \in DOMAIN tpc :
        /\ t1 # t2
        /\ tin[t1].ym = tin[t2].ym /\ tin[t1].plev /\ tin[t2].plev
        /\ tpc[t1].site > Len(CacheSites) /\ tpc[t2].site > Len(CacheSites)
        /\ \E i \in DOMAIN cacheWrites :
              cacheWrites[i] = [key |-> << tin[t1].ym, "plev_coords" >>, by |-> t1]

(***************************************************************************)
(* Properties of the quantile mapping                                      *)
(***************************************************************************)
Fitted == qpc = "done" /\ qin.op = "fit" /\ qout.raised = NoError
FiniteNonNegative(v) == ~ v.nan /\ v.den > 0 /\ v.num >= 0

\* C12: whatever the mapping and the inputs, far below or above the
\* quantiles included, every corrected intensity is finite and >= 0, a
\* non-finite mapped value becomes 0, and no element is dropped
C12_CorrectedFiniteNonNegative ==
    Fitted =>
        /\ Len(qout.corrected) = Len(qin.simulated_lmi)
        /\ Len(qout.probed) = Len(Probes)
        /\ \A i \in DOMAIN qout.corrected : FiniteNonNegative(qout.corrected[i])
        /\ \A i \in DOMAIN qout.probed : FiniteNonNegative(qout.probed[i])
        /\ \A i \in DOMAIN qin.simulated_lmi :
              qin.simulated_lmi[i].nan => qout.corrected[i] = Val(0)

\* a NaN among the inputs, and probes clamped to the ends of a mapping with
\* more than one value
C12_Witness ==
    /\ Fitted
    /\ \E i \in DOMAIN qin.simulated_lmi :
          qin.simulated_lmi[i].nan /\ qout.corrected[i] = Val(0)
    /\ qout.probed[1].num = qout.y[1]
    /\ qout.probed[Len(Probes)].num = qout.y[Len(qout.y)]
    /\ qout.y[1] < qout.y[Len(qout.y)]

Unchanged(corrected, simulated) ==
    \A i \in DOMAIN simulated :
        ~ simulated[i].nan => SameValue(corrected[i], simulated[i])

\* C13: fitted on two identical arrays the mapping sends every retained
\* simulated quantile to itself, and applying it, directly or through the
\* ungrouped post-processing, returns every input value unchanged, with
\* provenance {all: overall}
C13_IdenticalArraysGiveIdentity ==
    (qpc = "done" /\ qin.op \in { "fit", "postprocess" }
        /\ qin.observed_lmi = qin.simulated_lmi /\ qout.raised = NoError) =>
        /\ qin.op = "fit" =>
              /\ qout.x = qout.y
              /\ Unchanged(qout.corrected, qin.simulated_lmi)
        /\ (qin.op = "postprocess" /\ qin.basin = Missing /\ ~ qin.per_enso_phase) =>
              /\ Unchanged(qout.corrected_lmi, qin.simulated_lmi)
              /\ qout.mappings = [k \in { "all" } |-> "overall"]

NoStorm(lmi) == \A i \in DOMAIN lmi : lmi[i].nan \/ lmi[i].num < StormThreshold

\* C16: create_quantile_mapping raises whenever no quantile has both its
\* observed and its simulated value finite, as when one array has no value
\* >= 18; a mapping it returns has at least one pair
C16_DegenerateMappingRaises ==
    (qpc = "done" /\ qin.op = "fit") =>
        /\ (NoStorm(qin.observed_lmi) \/ NoStorm(qin.simulated_lmi))
              => qout.raised = "ValueError: No valid quantiles for mapping"
        /\ qout.raised = NoError =>
              Len(qout.x) >= 1 /\ Len(qout.y) = Len(qout.x)

\* observed storms, and simulated intensities that all stay below 18
C16_Witness ==
    /\ qpc = "done" /\ qin.op = "fit"
    /\ ~ NoStorm(qin.observed_lmi)
    /\ \A i \in DOMAIN qin.simulated_lmi : qin.simulated_lmi[i] = Val(10)
    /\ qout.raised # NoError

\* the groups that the call goes through, with the column that defines them
GroupColumn == IF qin.per_enso_phase THEN "enso_phase" ELSE "basin"
Groups ==
    IF qin.per_enso_phase THEN { "A", "B" }
    ELSE IF qin.basin # Missing THEN { qin.basin } ELSE {}
\* a call with exactly one of the two groupings
Grouped ==
    /\ qpc = "done"
    /\ qin.op = "postprocess"
    /\ qin.per_enso_phase # (qin.basin # Missing)
StepsOf(g) == { k \in DOMAIN qout.steps : qout.steps[k].group = g }
OverallValues(indices) ==
    apply_quantile_correction(Take(qin.simulated_lmi, indices),
                              create_quantile_mapping(qin.observed_lmi, qin.simulated_lmi))

\* C14: a group with fewer than 10 storms is recorded as
\* 'used_overall_mapping', never with the group-specific label, and its
\* members are given the values of the mapping fitted on the full arrays
C14_SmallGroupUsesOverall ==
    Grouped =>
        \A g \in Groups :
            LET indices == GroupStormIndices(qin.df, GroupColumn, g)
            IN  Len(indices) < MinGroupStorms =>
                  /\ \A k \in StepsOf(g) :
                        /\ qout.steps[k].label = "used_overall_mapping"
                        /\ qout.steps[k].indices = indices
                        /\ qout.steps[k].values = OverallValues(indices)
                  /\ qout.raised = NoError =>
                        /\ Cardinality(StepsOf(g)) = 1
                        /\ qout.mappings[g] = "used_overall_mapping"

\* phase A has 9 storms that could be given a mapping of their own, phase B
\* has 11
C14_Witness ==
    /\ Grouped /\ qin.per_enso_phase /\ qout.raised = NoError
    /\ Len(GroupStormIndices(qin.df, "enso_phase", "A")) = 9
    /\ create_quantile_mapping(Take(qin.observed_lmi, GroupStormIndices(qin.df, "enso_phase", "A")),
                               Take(qin.simulated_lmi, GroupStormIndices(qin.df, "enso_phase", "A"))
                              ).raised = NoError
    /\ qout.mappings = [g \in { "A", "B" } |->
                           IF g = "A" THEN "used_overall_mapping" ELSE "phase_specific"]

OwnMapping(indices) ==
    create_quantile_mapping(Take(qin.observed_lmi, indices),
                            Take(qin.simulated_lmi, indices))
OverallMapping == create_quantile_mapping(qin.observed_lmi, qin.simulated_lmi)
FitFails(g) ==
    /\ Len(GroupStormIndices(qin.df, GroupColumn, g)) >= MinGroupStorms
    /\ OwnMapping(GroupStormIndices(qin.df, GroupColumn, g)).raised # NoError

\* C15 as stated: when the fit of a group of at least 10 storms raises, no
\* error leaves the function, the group is corrected with the overall
\* mapping and recorded as 'fallback_overall'
C15_GroupFitErrorNeverLeaves ==
    Grouped =>
        \A g \in Groups :
            FitFails(g) =>
                /\ qout.raised = NoError
                /\ qout.mappings[g] = "fallback_overall"

\* C15: when the fit of a group of at least 10 storms raises and the
\* overall fit succeeds, no error leaves the function, the group is
\* corrected with the overall mapping and recorded as 'fallback_overall',
\* and every group has exactly one provenance entry, naming the strategy
\* used for it; when the overall fit raises too, its error leaves the
\* function
C15_GroupFitErrorFallsBack ==
    Grouped =>
        /\ OverallMapping.raised = NoError =>
              /\ qout.raised = NoError
              /\ DOMAIN qout.mappings = Groups
              /\ \A g \in Groups :
                    LET indices == GroupStormIndices(qin.df, GroupColumn, g)
                    IN  /\ Cardinality(StepsOf(g)) = 1
                        /\ \A k \in StepsOf(g) :
                              /\ qout.mappings[g] = qout.steps[k].label
                              /\ qout.steps[k].indices = indices
                              /\ FitFails(g) =>
                                    /\ qout.steps[k].label = "fallback_overall"
                                    /\ qout.steps[k].values = OverallValues(indices)
                              /\ (Len(indices) >= MinGroupStorms /\ ~ FitFails(g)) =>
                                    /\ qout.steps[k].label \in { "phase_specific", "basin_specific" }
                                    /\ qout.steps[k].values =
                                          apply_quantile_correction(
                                              Take(qin.simulated_lmi, indices),
                                              OwnMapping(indices))
        /\ (OverallMapping.raised # NoError /\ \E g \in Groups : FitFails(g)) =>
              qout.raised = "ValueError: No valid quantiles for mapping"

\* phase A has 10 storms, none simulated above 18; phase B has storms
C15_Witness ==
    /\ Grouped /\ qin.per_enso_phase /\ qout.raised = NoError
    /\ FitFails("A")
    /\ NoStorm(Take(qin.simulated_lmi, GroupStormIndices(qin.df, "enso_phase", "A")))
    /\ qout.mappings["A"] = "fallback_overall"
    /\ qout.mappings["B"] = "phase_specific"

\* the lifetime maximum of column c over the rows of one storm
LifetimeMax(c, storm) ==
    LET xs == { qin.df[i][c].num : i \in { i \in DOMAIN qin.df : qin.df[i].storm_id = storm } }
    IN  Val(CHOOSE m \in xs : \A x \in xs : x <= m)

\* C18: the observed and simulated arrays that main hands to the
\* post-processing are ordered like df['storm_id'].unique(): entry i of each
\* is the lifetime maximum of the storm unique_storms[i], in whatever order
\* the storms appear in the table
C18_LmiOrderedLikeUniqueStorms ==
    (qpc = "done" /\ qin.op = "main") =>
        /\ Len(qout.observed_lmi) = Len(qout.unique_storms)
        /\ \A i \in DOMAIN qout.unique_storms :
              /\ qout.observed_lmi[i] = LifetimeMax("max_wind_ms", qout.unique_storms[i])
              /\ qout.simulated_lmi[i] = LifetimeMax("predicted_intensity", qout.unique_storms[i])

(***************************************************************************)
(* Properties of the monthly data cache                                    *)
(***************************************************************************)
RECURSIVE LruKeys(_)
\* the keys a least-recently-used cache of MAX_CACHE_SIZE entries holds after
\* the calls: the most recently used keys whose load gave data, oldest first
LruKeys(calls) ==
    IF calls = << >> THEN << >>
    ELSE LET before == LruKeys(SubSeq(calls, 1, Len(calls) - 1))
             last == calls[Len(calls)]
             moved == SelectSeq(before, LAMBDA k : k # last.key) \o << last.key >>
         IN  IF ~ last.loaded THEN before
             ELSE IF Len(moved) > MAX_CACHE_SIZE THEN Tail(moved) ELSE moved

Oras5Succeeds == xin.oras5 # None /\ xin.env.oras \in { "ok", "file" }
\* the single-level file of the month is there and holds an SST field
Era5HasSst ==
    /\ "single_level" \in DOMAIN xin.era5
    /\ "sst" \in xin.era5["single_level"].data_vars
SstSettled == xpc \in { "pi", "optional", "raised", "returned" }

C22_State ==
    SstSettled =>
        /\ Oras5Succeeds =>
              /\ "sst" \in DOMAIN variables
              /\ variables["sst"] \in { "oras5", "oras5_file" }
        /\ (~ Oras5Succeeds /\ Era5HasSst) =>
              "sst" \in DOMAIN variables /\ variables["sst"] = "era5"
        /\ (~ Oras5Succeeds /\ ~ Era5HasSst) => "sst" \notin DOMAIN variables

\* an SST once stored is never replaced
C22_Step ==
    "sst" \in DOMAIN variables =>
        "sst" \in DOMAIN variables' /\ variables'["sst"] = variables["sst"]

\* C22: the SST is the ORAS5 one whenever the ORAS5 dataset is present and
\* its extraction succeeds; the ERA5 single-level SST is stored only when
\* ORAS5 is absent or its extraction failed, and then whenever ERA5 has an
\* SST field; no step replaces an SST already stored
C22_Oras5SstPreferred == [] C22_State /\ [][C22_Step]_vars

\* both sources could give an SST, and the ORAS5 one is kept
C22_Witness ==
    /\ xpc = "pi"
    /\ Oras5Succeeds
    /\ Era5HasSst
    /\ variables["sst"] = "oras5"

Finite(v) == ~ v.nan /\ v.den # 0
\* the finite values among the cells within the radius of a call
FiniteInRadius(r) == { v \in r.inradius : Finite(v) }
\* v is finite and lies between the smallest and the largest value of S
Between(v, S) ==
    /\ Finite(v)
    /\ \E lo \in S : lo.num * v.den <= v.num
    /\ \E hi \in S : v.num <= hi.num * v.den

\* C23: the average depends only on the cells that are within the radius
\* and finite: a NaN, +inf or -inf cell within the radius adds nothing to the
\* weighted sum or to the normalisation, so that with at least one finite
\* cell within the radius the result is finite, between the smallest and the
\* largest of the finite values within the radius
C23_AverageOfFiniteCellsOnly ==
    apc = "done" =>
        \A r \in { aout.west, aout.east } :
            FiniteInRadius(r) # {} => Between(r.value, FiniteInRadius(r))

\* the results of the single-field calls and of the batched call
AllAverages ==
    { aout.west, aout.east } \cup { aout.batch[i] : i \in DOMAIN aout.batch }

\* the value of the nearest cell, NaN when it is not finite
NearestOrNaN(r) == IF Finite(r.nearest) THEN r.nearest ELSE NaN

\* C24: when no cell is both within the radius and finite, the single-field
\* and the batched average return the value of the nearest grid cell, and
\* NaN when that value is not finite
C24_NoFiniteCellGivesNearestOrNaN ==
    apc = "batched" =>
        \A r \in AllAverages :
            FiniteInRadius(r) = {} => SameValue(r.value, NearestOrNaN(r))

\* C26: for fields that share one grid, element i of the result of
\* extract_spatial_average_batch equals the result of extract_spatial_average
\* on field i alone, on every path
C26_BatchEqualsSingle ==
    apc = "batched" =>
        /\ Len(aout.batch) = Len(aout.each)
        /\ \A i \in DOMAIN aout.each : SameValue(aout.batch[i].value, aout.each[i].value)

\* the value of a node, as a corrected intensity
Node(q) == [nan |-> FALSE, num |-> q, den |-> QuantileCount]

\* v corrected into c by the mapping with nodes x, y
FlatOutside(v, c, x, y) ==
    /\ QuantileCount * v.num < x[1] => SameValue(c, Node(y[1]))
    /\ QuantileCount * v.num > x[Len(x)] => SameValue(c, Node(y[Len(y)]))
    /\ ~ c.nan /\ c.den > 0
    /\ y[1] * c.den <= QuantileCount * c.num
    /\ QuantileCount * c.num <= y[Len(y)] * c.den

C27_EveryObservationCountedOnce ==
    pc = "done" =>
        /\ stats.success + stats.failed = stats.total
        /\ Len(all_variables_list) = stats.success
        /\ Len(failed_observations) = stats.failed
        /\ RowObs \cap FailedObs = {}
        /\ Cardinality(RowObs) = Len(all_variables_list)
        /\ Cardinality(FailedObs) = Len(failed_observations)
        /\ RowObs \cup FailedObs = DOMAIN ibtracs_df

\* C28: a call of apply_postprocessing_to_storms that returns gives one
\* finite, non-negative corrected value for every storm of
\* df['storm_id'].unique(), ungrouped, per basin or per ENSO phase: no storm
\* keeps the NaN the array was initialised with
C28_EveryStormCorrected ==
    (qpc = "done" /\ qin.op = "postprocess" /\ qout.raised = NoError) =>
        /\ Len(qout.corrected_lmi) = Len(Unique(Column(qin.df, "storm_id")))
        /\ \A i \in DOMAIN qout.corrected_lmi : FiniteNonNegative(qout.corrected_lmi[i])

\* C29: after add_landfall_and_kd_decay, for every track and every
\* ocean-to-land transition at position i, wind_speed_ms of each consecutive
\* land point j >= i is the Kaplan-DeMaria decay of the wind at the last
\* ocean point i-1 over times[j] - times[i] hours, and wind_speed_ms of
\* every ocean point is unchanged
C29_LandPointsDecayed ==
    dpc = "done" =>
        \A track_id \in Range(Column(din, "track_id")) :
            LET rows == TrackRows(din, track_id)
                land(p) == dout[rows[p]].is_land
            IN  /\ \A i \in 2..Len(rows) : (~land(i - 1) /\ land(i)) =>
                       \A j \in i..Len(rows) : (\A k \in i..j : land(k)) =>
                           dout[rows[j]].wind_speed_ms =
                               kaplan_demaria_decay(
                                   din[rows[i - 1]].wind_speed_ms,
                                   din[rows[j]].time_hours - din[rows[i]].time_hours,
                                   90, 18)
                /\ \A p \in DOMAIN rows :
                       ~land(p) => dout[rows[p]].wind_speed_ms = din[rows[p]].wind_speed_ms

\* the rows of the cleaned table of every run that returned are complete
CleanedTablesComplete ==
    \A r \in DOMAIN cleanRuns :
        cleanRuns[r].raised = NoError =>
            \A k \in DOMAIN cleanRuns[r].df.rows :
                \A c \in DOMAIN Columns : ~cleanRuns[r].df.rows[k][c].nan

BackupHoldsFirstTable ==
    /\ Exists(disk, BackupFile)
    /\ read_csv(disk[BackupFile]) = cleanRuns[1].read

\* C30 as stated: after any sequence of one or more runs of clean_tc_dataset
\* on the same input path with create_backup and replace_original true, the
\* backup file holds the table as it was before the first run, and the
\* cleaned table of every run has no row with missing translation_speed,
\* sst or pi
C30_BackupAlwaysFirstTable ==
    cleanRuns # << >> => BackupHoldsFirstTable /\ CleanedTablesComplete

\* C30 amended: the same, for sequences of runs that start with no file at
\* the backup path and in which no run is given the backup path as its
\* output_file
C30_BackupKeepsFirstTable ==
    (/\ cleanRuns # << >>
     /\ ~cleanRuns[1].backup_existed
     /\ \A r \in DOMAIN cleanRuns : cleanRuns[r].output_file # BackupFile)
        => BackupHoldsFirstTable /\ CleanedTablesComplete

\* two runs that returned, the first of which dropped a row and replaced the
\* input, with the backup still holding the table the first run read
C30_Witness ==
    /\ Len(cleanRuns) = 2
    /\ \A r \in DOMAIN cleanRuns :
          cleanRuns[r].raised = NoError /\ cleanRuns[r].output_file = NoPath
    /\ ~cleanRuns[1].backup_existed
    /\ Len(cleanRuns[1].df.rows) < Len(cleanRuns[1].read.rows)
    /\ cleanRuns[2].read.rows = cleanRuns[1].df.rows
    /\ BackupHoldsFirstTable
    /\ read_csv(disk[InputFile]) # cleanRuns[1].read

====
